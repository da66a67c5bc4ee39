---------------------------- MODULE GuideConsole ----------------------------
(***************************************************************************)
(* The guide console in a browser (apps/guide-console/app): what a guide   *)
(* decides about one child is kept as a log in localStorage and replayed   *)
(* over whatever profile the server sends with the page (decisions.ts,     *)
(* useConsole.ts).  The profile changes between two page loads as the      *)
(* child's play is ingested; a decision never reaches it.                  *)
(*                                                                         *)
(* An open family-pressure flag holds every promote until the guide has    *)
(* reviewed it (family.ts).  Several tabs may be open on one browser.      *)
(***************************************************************************)
EXTENDS Hypothesis, SequencesExt

CONSTANTS Id,            \* hypotheses of the child
          Guide,         \* the console's one synthetic guide
          Reads,         \* bound: the beliefs play may lead to
          Tab,           \* the tabs of the guide's browser
          MaxDecisions,  \* bound: decisions in one log
          MaxIngests     \* bound: times the profile changes

ASSUME GuideAssumption == Guide \in Human
ASSUME ReadsAssumption == Reads \subseteq Read
ASSUME ConsoleBoundsAssumption == MaxDecisions \in Nat /\ MaxIngests \in Nat

Action   == {"promote", "park", "reopen", "contest"}
Decision == [action : Action, id : Id]

\* What the server sends with a page: the child's hypotheses, the ids whose
\* returns are ripe, and whether the family read escalates.
Roster == [hyps : [Id -> Hyp \cup {None}], ripe : SUBSET Id, flagged : BOOLEAN]

ASSUME NothingAssumption == None \notin Roster /\ None \notin Action

VARIABLES
  served,       \* the roster the next page load gets
  ingests,      \* how often it changed
  savedLog,     \* DECISIONS_KEY in localStorage
  savedReview,  \* FAMILY_REVIEWS_KEY holds the child
  roster,       \* per tab: the roster it was loaded with, or None while closed
  live,         \* per tab: the store on screen
  decisions,    \* per tab: its decision log
  reviewed      \* per tab: whether it counts the family flag as reviewed

storage == <<savedLog, savedReview>>
tabs    == <<roster, live, decisions, reviewed>>
vars    == <<served, ingests, storage, tabs>>

NoHyps == [i \in Id |-> None]

Init ==
  /\ served = [hyps |-> NoHyps, ripe |-> {}, flagged |-> FALSE]
  /\ ingests = 0
  /\ savedLog = <<>> /\ savedReview = FALSE
  /\ roster = [t \in Tab |-> None]
  /\ live = [t \in Tab |-> NoHyps]
  /\ decisions = [t \in Tab |-> <<>>]
  /\ reviewed = [t \in Tab |-> FALSE]

Open(t) == roster[t] # None

-----------------------------------------------------------------------------
(* The server *)

\* runCycle on one hypothesis: the read, where it has the cell, then the artifact.
Ingested(h, r, made) ==
  IF r = None THEN h
  ELSE LET g == ApplyRead(h, r) IN [g EXCEPT !.artifact = @ \/ made]

\* A batch of play folded into the child's profile (runCycle), by the system's
\* transitions only.  A late record may take a ripe timeline away, or a cell out of
\* the read, whose hypothesis is then left as it is.  The family read follows the
\* whole profile.
Ingest ==
  /\ ingests < MaxIngests
  /\ ingests' = ingests + 1
  /\ \E r \in [Id -> Reads \cup {None}], made \in SUBSET Id, back \in SUBSET Id, flag \in BOOLEAN :
       /\ \A i \in made \cup back : r[i] # None
       /\ served' = [hyps |-> [i \in Id |-> Ingested(served.hyps[i], r[i], i \in made)],
                     ripe |-> back, flagged |-> flag]
  /\ UNCHANGED <<storage, tabs>>

-----------------------------------------------------------------------------
(* Decisions *)

\* Mutant of GateOf: only the return timeline is asked.
GateOfReturns(ro, i) == ro.hyps[i] # None /\ i \in ro.ripe

\* gates: of a hypothesis of the roster, whatever the store on screen says.
GateOf(ro, i) == ro.hyps[i] # None /\ GatePassed(ro.hyps[i], i \in ro.ripe)

\* The throws promote, park, reopen and contest do not take.
Legal(ro, hyps, d) ==
  /\ hyps[d.id] # None
  /\ CASE d.action = "promote" -> MayPromote(hyps[d.id], Guide, GateOf(ro, d.id), TRUE)
       [] d.action = "park"    -> MayPark(hyps[d.id], Guide)
       [] d.action = "reopen"  -> MayReopen(hyps[d.id], Guide)
       [] d.action = "contest" -> MayContest(hyps[d.id], Guide)

Apply(hyps, d) ==
  [hyps EXCEPT ![d.id] =
     CASE d.action = "promote" -> Promoted(@, Guide)
       [] d.action = "park"    -> Parked(@, Guide)
       [] d.action = "reopen"  -> Reopened(@, Guide)
       [] d.action = "contest" -> Contested(@, Guide)]

\* One turn of applyDecisions' loop: a decision refused today is skipped.
Decided(ro, hyps, d) == IF Legal(ro, hyps, d) THEN Apply(hyps, d) ELSE hyps

\* applyDecisions: after[n] is the store after the first n decisions.
Replay(ro, dlog) ==
  LET after[n \in 0..Len(dlog)] ==
        IF n = 0 THEN ro.hyps ELSE Decided(ro, after[n - 1], dlog[n])
  IN  after[Len(dlog)]

\* familyPressureBlocks
Held(t) == roster[t].flagged /\ ~reviewed[t]

\* record and setStore.  localStorage may refuse the write; the session goes on.
Record(t, d) ==
  /\ Len(decisions[t]) < MaxDecisions
  /\ decisions' = [decisions EXCEPT ![t] = Append(@, d)]
  /\ savedLog' \in {decisions'[t], savedLog}
  /\ live' = [live EXCEPT ![t] = Apply(@, d)]
  /\ UNCHANGED <<served, ingests, savedReview, roster, reviewed>>

-----------------------------------------------------------------------------
(* What a tab does *)

\* Mutant of Load: the log is read back but not replayed.
LoadForgetting(t) ==
  /\ roster' = [roster EXCEPT ![t] = served]
  /\ live' = [live EXCEPT ![t] = served.hyps]
  /\ decisions' = [decisions EXCEPT ![t] = savedLog]
  /\ reviewed' = [reviewed EXCEPT ![t] = savedReview]
  /\ UNCHANGED <<served, ingests, storage>>

\* The page loads, or is reloaded: the roster of now, the saved log replayed
\* over it.  What the replay skips is reported to nobody.
Load(t) ==
  /\ roster' = [roster EXCEPT ![t] = served]
  /\ live' = [live EXCEPT ![t] = Replay(served, savedLog)]
  /\ decisions' = [decisions EXCEPT ![t] = savedLog]
  /\ reviewed' = [reviewed EXCEPT ![t] = savedReview]
  /\ UNCHANGED <<served, ingests, storage>>

\* runAction: a card's button.  A refused action records nothing.
RunAction(t, d) ==
  /\ Open(t)
  /\ d.action = "promote" => ~Held(t)
  /\ Legal(roster[t], live[t], d)
  /\ Record(t, d)

\* applyGuidePrimaryAction on an emerging hypothesis whose gate passed.  Which
\* one ranks first is left open.
Primary(t, i) ==
  /\ live[t][i] # None
  /\ live[t][i].state = "EMERGING"
  /\ GateOf(roster[t], i)
  /\ Record(t, [action |-> "promote", id |-> i])

\* promoteKid: the roster's button.
PromoteKid(t, i) == Open(t) /\ ~Held(t) /\ Primary(t, i)

\* window.__qa.primaryAction, once between two renders.
QaPrimaryAction(t, i) == Open(t) /\ Primary(t, i)

\* Mutant of UndoLast: the log shrinks and the store is left alone.
UndoLastInLog(t) ==
  /\ Open(t)
  /\ decisions[t] # <<>>
  /\ decisions' = [decisions EXCEPT ![t] = Front(@)]
  /\ savedLog' \in {decisions'[t], savedLog}
  /\ UNCHANGED <<served, ingests, savedReview, roster, live, reviewed>>

\* undoLast
UndoLast(t) ==
  /\ Open(t)
  /\ decisions[t] # <<>>
  /\ decisions' = [decisions EXCEPT ![t] = Front(@)]
  /\ savedLog' \in {decisions'[t], savedLog}
  /\ live' = [live EXCEPT ![t] = Replay(roster[t], decisions'[t])]
  /\ UNCHANGED <<served, ingests, savedReview, roster, reviewed>>

\* resetDecisions
ResetDecisions(t) ==
  /\ Open(t)
  /\ \/ savedLog' = <<>> /\ savedReview' = FALSE
     \/ UNCHANGED storage
  /\ decisions' = [decisions EXCEPT ![t] = <<>>]
  /\ reviewed' = [reviewed EXCEPT ![t] = FALSE]
  /\ live' = [live EXCEPT ![t] = roster[t].hyps]
  /\ UNCHANGED <<served, ingests, roster>>

\* acknowledgeFamily and unacknowledgeFamily
Review(t, seen) ==
  /\ Open(t)
  /\ reviewed[t] # seen
  /\ reviewed' = [reviewed EXCEPT ![t] = seen]
  /\ savedReview' \in {seen, savedReview}
  /\ UNCHANGED <<served, ingests, savedLog, roster, live, decisions>>

Next ==
  \/ Ingest
  \/ \E t \in Tab :
       \/ Load(t) \/ UndoLast(t) \/ ResetDecisions(t)
       \/ \E d \in Decision : RunAction(t, d)
       \/ \E i \in Id : PromoteKid(t, i) \/ QaPrimaryAction(t, i)
       \/ \E seen \in BOOLEAN : Review(t, seen)

Spec == Init /\ [][Next]_vars

-----------------------------------------------------------------------------
(* Properties *)

TypeOK ==
  /\ served \in Roster /\ ingests \in Nat
  /\ savedLog \in Seq(Decision) /\ savedReview \in BOOLEAN
  /\ roster \in [Tab -> Roster \cup {None}]
  /\ live \in [Tab -> [Id -> Hyp \cup {None}]]
  /\ \A t \in Tab, i \in Id : live[t][i] # None => live[t][i].state # "REOPENED"
  /\ decisions \in [Tab -> Seq(Decision)]
  /\ reviewed \in [Tab -> BOOLEAN]

\* "The log is the record and the store is its result" (useConsole.ts): what a
\* tab shows is at all times what a replay of its own log over its roster gives,
\* so that undo can be a replay of the log less its last entry.
LiveIsReplay ==
  \A t \in Tab : Open(t) => live[t] = Replay(roster[t], decisions[t])

\* The last thing the log says about hypothesis i, or None.
LastAbout(dlog, i) ==
  LET about == {n \in DOMAIN dlog : dlog[n].id = i}
  IN  IF about = {} THEN None ELSE dlog[Max(about)].action

\* "Park, don't delete is the rule this restores: before it, a refresh deleted
\* the park" (decisions.ts): a hypothesis whose last recorded decision is a park
\* is parked on screen, whatever the profile has become since.
ParkHolds ==
  \A t \in Tab, i \in Id :
    Open(t) /\ live[t][i] # None /\ LastAbout(decisions[t], i) = "park"
      => live[t][i].state = "PARKED"

\* What is on screen got there by moves its actors may make, whichever log was
\* replayed over whichever roster (decisions.ts: the legality table and the
\* human-actor requirement are enforced coming back in as they were going out).
HistoryLegal ==
  \A t \in Tab, i \in Id : live[t][i] # None => Chained(live[t][i])

\* Nothing stands promoted on screen but by the guide, with the artifact and the
\* returns in the roster the tab was loaded with.
PromotionStands ==
  \A t \in Tab, i \in Id :
    live[t][i] # None /\ live[t][i].state \in {"CANDIDATE", "ACTIVE"} =>
      /\ roster[t].hyps[i] # None /\ roster[t].hyps[i].artifact
      /\ i \in roster[t].ripe
      /\ Last(live[t][i].history).actor = Guide

\* A park that reached localStorage stays there for as long as the tab that shows
\* it keeps it: no decision about anything else, no reload and no review loses it.
ParkSurvives ==
  [][\A t \in Tab, i \in Id :
       /\ Open(t)
       /\ LastAbout(savedLog, i) = "park" /\ LastAbout(decisions[t], i) = "park"
       /\ LastAbout(decisions'[t], i) = "park"
       => LastAbout(savedLog', i) = "park"]_vars

\* "What a human decided, kept so a reload does not undo it" (decisions.ts): a
\* tab whose log is saved shows after a reload what it showed before, for every
\* hypothesis the guide decided about.
ReloadKeeps ==
  [][\A t \in Tab, i \in Id :
       Load(t) /\ Open(t) /\ savedLog = decisions[t] /\ LastAbout(savedLog, i) # None
         => live'[t][i].state = live[t][i].state]_vars
=============================================================================
