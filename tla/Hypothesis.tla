----------------------------- MODULE Hypothesis -----------------------------
(***************************************************************************)
(* The record the system keeps for one interest hypothesis, what an        *)
(* interest read does to it, and what a named human may do to it           *)
(* (packages/hypothesis-store).  Operators only: HypothesisStore and       *)
(* GuideConsole build their state machines from them.                      *)
(*                                                                         *)
(* Of the evidence a read carries, the lifecycle looks at two facts: is    *)
(* the belief confident, and is its lower bound at SPIKE_THRESHOLD.        *)
(* Versions, timestamps and reasons are left out.                          *)
(***************************************************************************)
EXTENDS Naturals, Sequences

CONSTANTS Human,    \* actors whose role is neither MODEL nor SYSTEM
          System,   \* the actor of every automatic transition
          None      \* no hypothesis for this cell, or no belief about it

ASSUME SystemAssumption == System \notin Human

Lifecycle ==
  {"EXPLORING", "EMERGING", "CANDIDATE", "ACTIVE", "PARKED", "CONTESTED", "REOPENED"}

\* The legality table.  A human may also make the system's transitions.
BySystem ==
  {<<"EXPLORING", "EMERGING">>, <<"EMERGING", "CONTESTED">>, <<"CANDIDATE", "CONTESTED">>}

ByHuman ==
  {<<"EMERGING", "CANDIDATE">>, <<"CANDIDATE", "ACTIVE">>,
   <<"PARKED", "REOPENED">>, <<"REOPENED", "EMERGING">>, <<"CONTESTED", "EMERGING">>}
  \cup {<<s, "PARKED">> : s \in Lifecycle \ {"PARKED"}}

CanTransition(from, to, by) ==
  <<from, to>> \in (IF by = "auto" THEN BySystem ELSE BySystem \cup ByHuman)

Read  == [confident : BOOLEAN, high : BOOLEAN]
Entry == [from : Lifecycle, to : Lifecycle, actor : Human \cup {System}]
Hyp   == [state : Lifecycle, confident : BOOLEAN, high : BOOLEAN,
          wasAbove : BOOLEAN, artifact : BOOLEAN, history : Seq(Entry)]

ASSUME NoneAssumption == None \notin Read /\ None \notin Hyp

\* The history of h is a chain from its creation to its state, and each link is
\* one its actor may make.
Chained(h) ==
  LET n == Len(h.history) IN
    /\ n >= 1
    /\ h.history[1] = [from |-> "EXPLORING", to |-> "EXPLORING", actor |-> System]
    /\ h.history[n].to = h.state
    /\ \A i \in 2..n :
         /\ h.history[i].from = h.history[i - 1].to
         /\ CanTransition(h.history[i].from, h.history[i].to,
                          IF h.history[i].actor = System THEN "auto" ELSE "human")

-----------------------------------------------------------------------------
\* withState: every change of state leaves an entry.
WithState(h, to, actor) ==
  [h EXCEPT !.state = to,
            !.history = Append(@, [from |-> h.state, to |-> to, actor |-> actor])]

\* Mutants of Advance.  The table is not asked, and a parked one contested.
AdvanceUnchecked(h) ==
  CASE h.state \in {"EMERGING", "CANDIDATE", "PARKED"} /\ h.wasAbove /\ ~h.high
         -> WithState(h, "CONTESTED", System)
    [] h.state = "EXPLORING" /\ h.confident -> WithState(h, "EMERGING", System)
    [] OTHER -> h

\* What fell below the threshold is explored again instead of contested.
AdvanceDemoting(h) ==
  CASE h.state \in {"EMERGING", "CANDIDATE"} /\ h.wasAbove /\ ~h.high
         -> WithState(h, "EXPLORING", System)
    [] h.state = "EXPLORING" /\ h.confident -> WithState(h, "EMERGING", System)
    [] OTHER -> h

\* advance: the system's transitions.
Advance(h) ==
  CASE /\ h.state \in {"EMERGING", "CANDIDATE"}
       /\ h.wasAbove /\ ~h.high
       /\ CanTransition(h.state, "CONTESTED", "auto") -> WithState(h, "CONTESTED", System)
    [] h.state = "EXPLORING" /\ h.confident           -> WithState(h, "EMERGING", System)
    [] OTHER                                          -> h

Created ==
  [state |-> "EXPLORING", confident |-> FALSE, high |-> FALSE, wasAbove |-> FALSE,
   artifact |-> FALSE,
   history |-> <<[from |-> "EXPLORING", to |-> "EXPLORING", actor |-> System]>>]

\* Mutant of ApplyRead: a known hypothesis is created anew.
ApplyReadAfresh(prev, r) ==
  Advance([Created EXCEPT !.confident = r.confident, !.high = r.high, !.wasAbove = r.high])

\* applyInterestRead on one cell: the new evidence, and advance, on creation too.
\* That the belief once reached the threshold is never forgotten.
ApplyRead(prev, r) ==
  LET h == IF prev = None THEN Created ELSE prev
  IN  Advance([h EXCEPT !.confident = r.confident,
                        !.high = r.high,
                        !.wasAbove = @ \/ r.high])

-----------------------------------------------------------------------------
(* Human transitions.  Each May... is the throws its action does not take. *)

\* Mutant of GatePassed: the artifact leg is dropped.
GatePassedByTime(h, ripe) == ripe

\* evaluateGate: ripe is its two legs on the return timeline, a return after a
\* quiet gap and a long enough span.
GatePassed(h, ripe) == ripe /\ h.artifact

\* promote: from CANDIDATE it activates, from anything else it asks for the gate.
Promotion(h) == IF h.state = "CANDIDATE" THEN "ACTIVE" ELSE "CANDIDATE"

\* Mutant of MayPromote: the table is not asked.
MayPromoteFromAnywhere(h, actor, passed, signOff) ==
  /\ actor \in Human
  /\ Promotion(h) = "CANDIDATE" => passed /\ signOff

MayPromote(h, actor, passed, signOff) ==
  /\ actor \in Human
  /\ Promotion(h) = "CANDIDATE" => passed /\ signOff
  /\ CanTransition(h.state, Promotion(h), "human")

Promoted(h, actor) == WithState(h, Promotion(h), actor)

MayPark(h, actor) == actor \in Human /\ CanTransition(h.state, "PARKED", "human")

Parked(h, actor) == WithState(h, "PARKED", actor)

MayReopen(h, actor) == actor \in Human /\ h.state = "PARKED"

\* Mutant of Reopened: the second transition is forgotten.
ReopenedHalf(h, actor) == WithState(h, "REOPENED", actor)

\* reopen: two transitions in one call.
Reopened(h, actor) == WithState(WithState(h, "REOPENED", actor), "EMERGING", actor)

MayContest(h, actor) == actor \in Human /\ CanTransition(h.state, "CONTESTED", "human")

Contested(h, actor) == WithState(h, "CONTESTED", actor)
=============================================================================
