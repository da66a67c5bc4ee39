-------------------------- MODULE HypothesisStore --------------------------
(***************************************************************************)
(* One child's hypotheses over time: discovery cycles (runCycle of         *)
(* student-profile/orchestrator.ts over applyInterestRead) interleaved     *)
(* with the decisions of named humans (hypothesis-store/actions.ts).       *)
(*                                                                         *)
(* What a cycle infers from the log is taken from outside: any read, and   *)
(* any cells with a recovered failure or a ripe return timeline.  The log  *)
(* only grows, but what it shows does not: a record that arrives late may  *)
(* fall inside a gap between two returns, or on the day of one, and the    *)
(* timeline is not ripe any more, or show that what was held against a     *)
(* cell was not, and the read has that cell no more.  An artifact once     *)
(* earned is kept (mergePerseverance).                                     *)
(***************************************************************************)
EXTENDS Hypothesis, SequencesExt

CONSTANTS Cell,        \* domain-by-mode cells
          MaxHistory   \* bound: entries in one hypothesis's history

ASSUME MaxHistoryAssumption == MaxHistory \in Nat

VARIABLES
  store,   \* the hypothesis of each cell, or None
  read,    \* the belief about each cell the last cycle inferred, or None
  earned,  \* the cells with a perseverance artifact (perseveranceArtifacts)
  ripe,    \* the cells whose returns outlived a gap and span the minimum term

  \* A history variable, which no action reads: the cells whose returns were ripe
  \* at some moment since their hypothesis last stood outside the promoted states.
  proven

vars == <<store, read, earned, ripe, proven>>

Init ==
  /\ store = [c \in Cell |-> None]
  /\ read = [c \in Cell |-> None]
  /\ earned = {}
  /\ ripe = {}
  /\ proven = {}

Seen(r) == {c \in Cell : r[c] # None}

\* applyInterestRead, on one cell: without a belief about it nothing is touched.
Applied(h, r) == IF r = None THEN h ELSE ApplyRead(h, r)

\* attachArtifacts, on one cell.  It gives an artifact and never takes one away.
Attach(h, has) == IF h = None THEN None ELSE [h EXCEPT !.artifact = @ \/ has]

\* runCycle's store: the read applied to every cell it has, then the artifacts.
CycleStore(r, e) == [c \in Cell |-> Attach(Applied(store[c], r[c]), c \in e)]

WithinBound(s) == \A c \in Cell : s[c] # None => Len(s[c].history) <= MaxHistory

\* runCycle on a batch: whatever the longer log now says.  Only of a cell with an
\* event has it returns, or a failure that was recovered from.
Cycle ==
  /\ read' \in [Cell -> Read \cup {None}]
  /\ \E more \in SUBSET Seen(read') : earned' = earned \cup more
  /\ store' = CycleStore(read', earned')
  /\ WithinBound(store')
  /\ ripe' \in SUBSET Seen(read')

\* runCycle on the empty batch at the same clock: the same read again.
Replay ==
  /\ store' = CycleStore(read, earned)
  /\ WithinBound(store')
  /\ UNCHANGED <<read, earned, ripe>>

Put(c, h) ==
  /\ Len(h.history) <= MaxHistory
  /\ store' = [store EXCEPT ![c] = h]
  /\ UNCHANGED <<read, earned, ripe>>

Promote(c, actor, signOff) ==
  /\ store[c] # None
  /\ MayPromote(store[c], actor, GatePassed(store[c], c \in ripe), signOff)
  /\ Put(c, Promoted(store[c], actor))

Park(c, actor) ==
  /\ store[c] # None
  /\ MayPark(store[c], actor)
  /\ Put(c, Parked(store[c], actor))

Reopen(c, actor) ==
  /\ store[c] # None
  /\ MayReopen(store[c], actor)
  /\ Put(c, Reopened(store[c], actor))

Contest(c, actor) ==
  /\ store[c] # None
  /\ MayContest(store[c], actor)
  /\ Put(c, Contested(store[c], actor))

Moves ==
  \/ Cycle \/ Replay
  \/ \E c \in Cell, actor \in Human \cup {System} :
       \/ \E signOff \in BOOLEAN : Promote(c, actor, signOff)
       \/ Park(c, actor) \/ Reopen(c, actor) \/ Contest(c, actor)

StandsPromoted(h) == h # None /\ h.state \in {"CANDIDATE", "ACTIVE"}

\* What every step leaves in proven: the ripe of now, and of before for as long as
\* the hypothesis stands promoted.
Remember == proven' = ripe' \cup {c \in proven : StandsPromoted(store'[c])}

Next == Moves /\ Remember

Spec == Init /\ [][Next]_vars

-----------------------------------------------------------------------------
(* Properties *)

\* REOPENED is passed through within one call and never at rest.
TypeOK ==
  /\ store \in [Cell -> Hyp \cup {None}]
  /\ read \in [Cell -> Read \cup {None}]
  /\ earned \subseteq Cell /\ ripe \subseteq proven /\ proven \subseteq Cell
  /\ \A c \in Cell : store[c] # None => store[c].state # "REOPENED"

\* However cycles, replays and decisions interleave, the history a hypothesis
\* carries is complete and every move in it was within its actor's authority
\* (lifecycle.ts: "the system may only do the auto ones").
HistoryLegal == \A c \in Cell : store[c] # None => Chained(store[c])

\* Behind whatever stands promoted is a gate that was passed since it last stood
\* outside: its returns were ripe at some moment after that, an old ripeness never
\* carries over a park or a contest, and its artifact is there still.  A human put
\* it there, an active one twice in a row.  More does not hold: a late record may
\* take the returns away, and neither the one that stands nor its activation, which
\* asks for no gate (actions.ts:34), notices.
PromotionStands ==
  \A c \in Cell : StandsPromoted(store[c]) =>
    LET h == store[c]
        n == Len(h.history)
    IN  /\ h.artifact /\ c \in proven
        /\ h.history[n].actor \in Human
        /\ h.state = "ACTIVE" => /\ h.history[n - 1].to = "CANDIDATE"
                                 /\ h.history[n - 1].actor \in Human

\* Park, don't delete: no step loses a hypothesis or rewrites its past.
NothingErased ==
  [][\A c \in Cell : store[c] # None =>
       /\ store'[c] # None
       /\ IsPrefix(store[c].history, store'[c].history)]_vars

\* Re-applying the current read settles: it moves a hypothesis at most once,
\* whatever humans did since the read was made.
ReplaySettles ==
  \A c \in Cell : store[c] # None =>
    LET once == Applied(store[c], read[c]) IN Applied(once, read[c]) = once

\* "Invariant (SC-2): runCycle(p, EMPTY_BATCH, ctx, now).store deep-equals
\* p.store" (orchestrator.ts).
ReplayIsNoOp == [][Replay => UNCHANGED store]_vars
=============================================================================
