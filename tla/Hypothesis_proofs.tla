-------------------------- MODULE Hypothesis_proofs --------------------------
(***************************************************************************)
(* What one hypothesis keeps, whoever changes it: the facts the proofs     *)
(* about the store and about the guide console share.                      *)
(*                                                                         *)
(* Everything rests on one operator, WithState: no other part of the code  *)
(* changes the state of a hypothesis or writes its history.                *)
(***************************************************************************)
EXTENDS Hypothesis, SequencesExt, TLAPS

\* A hypothesis that may be in the store: well formed, and not halfway through
\* a reopen.
AtRest(h) == h \in Hyp /\ h.state # "REOPENED"

-----------------------------------------------------------------------------
(* Lemmas on one hypothesis *)

\* withState gives a hypothesis of the state asked for, one entry longer.
LEMMA WithStateType ==
  ASSUME NEW h \in Hyp, NEW to \in Lifecycle, NEW actor \in Human \cup {System}
  PROVE  /\ WithState(h, to, actor) \in Hyp
         /\ WithState(h, to, actor).state = to
         /\ WithState(h, to, actor).history
              = Append(h.history, [from |-> h.state, to |-> to, actor |-> actor])
         /\ WithState(h, to, actor).artifact = h.artifact
         /\ WithState(h, to, actor).confident = h.confident
         /\ WithState(h, to, actor).high = h.high
         /\ WithState(h, to, actor).wasAbove = h.wasAbove
<1> DEFINE e == [from |-> h.state, to |-> to, actor |-> actor]
<1>1. e \in Entry
  BY DEF Hyp, Entry
<1>2. Append(h.history, e) \in Seq(Entry)
  BY <1>1 DEF Hyp
<1>3. QED
  BY <1>2 DEF WithState, Hyp

\* A move its actor may make keeps the chain whole.
LEMMA WithStateChained ==
  ASSUME NEW h \in Hyp, Chained(h), NEW to \in Lifecycle, NEW actor \in Human \cup {System},
         CanTransition(h.state, to, IF actor = System THEN "auto" ELSE "human")
  PROVE  Chained(WithState(h, to, actor))
<1> DEFINE e == [from |-> h.state, to |-> to, actor |-> actor]
           g == WithState(h, to, actor)
           n == Len(h.history)
<1>1. /\ g.state = to
      /\ g.history = Append(h.history, e)
  BY WithStateType
<1>2. h.history \in Seq(Entry) /\ n \in Nat
  BY DEF Hyp
<1>3. /\ Len(g.history) = n + 1
      /\ g.history[n + 1] = e
      /\ \A i \in 1..n : g.history[i] = h.history[i]
  BY <1>1, <1>2
<1>4. n >= 1 /\ h.history[n].to = h.state
  BY DEF Chained
<1>5. ASSUME NEW i \in 2..(n + 1)
      PROVE  /\ g.history[i].from = g.history[i - 1].to
             /\ CanTransition(g.history[i].from, g.history[i].to,
                              IF g.history[i].actor = System THEN "auto" ELSE "human")
  <2>1. CASE i = n + 1
    <3>1. g.history[i] = e /\ g.history[i - 1] = h.history[n]
      BY <1>2, <1>3, <1>4, <2>1
    <3>2. e.from = h.state /\ e.to = to /\ e.actor = actor
      OBVIOUS
    <3>3. QED
      BY <1>4, <3>1, <3>2
  <2>2. CASE i # n + 1
    <3>1. i \in 2..n /\ i - 1 \in 1..n /\ i \in 1..n
      BY <1>2, <2>2
    <3>2. g.history[i] = h.history[i] /\ g.history[i - 1] = h.history[i - 1]
      BY <1>3, <3>1
    <3>3. QED
      BY <3>1, <3>2 DEF Chained
  <2>3. QED
    BY <2>1, <2>2
<1>6. g.history[1] = h.history[1]
  BY <1>2, <1>3, <1>4
<1>7. g.history[1] = [from |-> "EXPLORING", to |-> "EXPLORING", actor |-> System]
  BY <1>6 DEF Chained
<1>8. Len(g.history) >= 1 /\ g.history[Len(g.history)].to = g.state
  BY <1>1, <1>2, <1>3
<1>9. QED
  BY <1>3, <1>5, <1>7, <1>8 DEF Chained

\* A new entry leaves the older ones in front of it.
LEMMA WithStatePrefix ==
  ASSUME NEW h \in Hyp, NEW to \in Lifecycle, NEW actor \in Human \cup {System}
  PROVE  IsPrefix(h.history, WithState(h, to, actor).history)
<1> DEFINE e == [from |-> h.state, to |-> to, actor |-> actor]
<1>1. h.history \in Seq(Entry) /\ e \in Entry
  BY DEF Hyp, Entry
<1>2. IsPrefix(h.history, Append(h.history, e))
  BY <1>1 DEF IsPrefix
<1>3. QED
  BY <1>2, WithStateType

\* The system's own move: at most one entry, and never into or out of what a
\* human promoted to ACTIVE or parked.
LEMMA AdvanceKeeps ==
  ASSUME NEW h \in Hyp, AtRest(h), Chained(h)
  PROVE  /\ AtRest(Advance(h)) /\ Chained(Advance(h))
         /\ IsPrefix(h.history, Advance(h).history)
         /\ Advance(h).artifact = h.artifact
         /\ Advance(h).state \in {"CANDIDATE", "ACTIVE"} => Advance(h) = h
         /\ Advance(h).state = "EXPLORING" => ~h.confident
<1> DEFINE falls == /\ h.state \in {"EMERGING", "CANDIDATE"}
                    /\ h.wasAbove /\ ~h.high
                    /\ CanTransition(h.state, "CONTESTED", "auto")
           rises == h.state = "EXPLORING" /\ h.confident
<1>0. {"CONTESTED", "EMERGING"} \subseteq Lifecycle /\ System \in Human \cup {System}
  BY DEF Lifecycle
<1>1. CASE falls
  <2>1. Advance(h) = WithState(h, "CONTESTED", System)
    BY <1>1 DEF Advance
  <2>2. CanTransition(h.state, "CONTESTED", IF System = System THEN "auto" ELSE "human")
    BY <1>1
  <2> DEFINE g == WithState(h, "CONTESTED", System)
  <2>3. g \in Hyp /\ g.state = "CONTESTED" /\ g.artifact = h.artifact
    BY <1>0, WithStateType
  <2>4. Chained(g)
    BY <1>0, <2>2, WithStateChained
  <2>5. IsPrefix(h.history, g.history)
    BY <1>0, WithStatePrefix
  <2>6. QED
    BY <2>1, <2>3, <2>4, <2>5 DEF AtRest
<1>2. CASE rises
  <2>1. Advance(h) = WithState(h, "EMERGING", System)
    BY <1>2 DEF Advance
  <2>2. CanTransition(h.state, "EMERGING", IF System = System THEN "auto" ELSE "human")
    BY <1>2 DEF CanTransition, BySystem
  <2> DEFINE g == WithState(h, "EMERGING", System)
  <2>3. g \in Hyp /\ g.state = "EMERGING" /\ g.artifact = h.artifact
    BY <1>0, WithStateType
  <2>4. Chained(g)
    BY <1>0, <2>2, WithStateChained
  <2>5. IsPrefix(h.history, g.history)
    BY <1>0, WithStatePrefix
  <2>6. QED
    BY <2>1, <2>3, <2>4, <2>5 DEF AtRest
<1>3. CASE ~falls /\ ~rises
  <2>1. Advance(h) = h
    BY <1>3 DEF Advance
  <2>2. IsPrefix(h.history, h.history)
    BY DEF IsPrefix, Hyp
  <2>3. QED
    BY <1>3, <2>1, <2>2
<1>4. QED
  BY <1>1, <1>2, <1>3

\* What a read does before advance: the new evidence, and nothing else.
Fresh(prev, r) ==
  [(IF prev = None THEN Created ELSE prev) EXCEPT
     !.confident = r.confident, !.high = r.high, !.wasAbove = @ \/ r.high]

LEMMA CreatedIsChained == Created \in Hyp /\ AtRest(Created) /\ Chained(Created)
<1> DEFINE e == [from |-> "EXPLORING", to |-> "EXPLORING", actor |-> System]
<1>1. e \in Entry
  BY DEF Entry, Lifecycle
<1>2. <<e>> \in Seq(Entry) /\ Len(<<e>>) = 1 /\ <<e>>[1] = e
  BY <1>1
<1>3. Created \in Hyp
  BY <1>2 DEF Created, Hyp, Lifecycle
<1>4. Created.history = <<e>> /\ Created.state = "EXPLORING"
  BY DEF Created
<1>5. Chained(Created)
  BY <1>2, <1>4 DEF Chained
<1>6. QED
  BY <1>3, <1>4, <1>5 DEF AtRest

LEMMA FreshKeeps ==
  ASSUME NEW prev \in Hyp \cup {None}, NEW r \in Read,
         prev # None => AtRest(prev) /\ Chained(prev)
  PROVE  LET g == Fresh(prev, r)
             h == IF prev = None THEN Created ELSE prev
         IN  /\ g \in Hyp /\ AtRest(g) /\ Chained(g)
             /\ g.history = h.history /\ g.state = h.state /\ g.artifact = h.artifact
             /\ g.confident = r.confident /\ g.high = r.high
             /\ g.wasAbove = (h.wasAbove \/ r.high)
<1> DEFINE h == IF prev = None THEN Created ELSE prev
           g == Fresh(prev, r)
<1>1. h \in Hyp /\ AtRest(h) /\ Chained(h)
  BY CreatedIsChained
<1>2. r.confident \in BOOLEAN /\ r.high \in BOOLEAN /\ h.wasAbove \in BOOLEAN
  BY <1>1 DEF Read, Hyp
<1>3. /\ g.history = h.history /\ g.state = h.state /\ g.artifact = h.artifact
      /\ g.confident = r.confident /\ g.high = r.high
      /\ g.wasAbove = (h.wasAbove \/ r.high)
  BY <1>1 DEF Fresh, Hyp
<1>4. g \in Hyp
  BY <1>1, <1>2 DEF Fresh, Hyp
<1>5. Chained(g)
  BY <1>1, <1>3 DEF Chained
<1>6. QED
  BY <1>1, <1>3, <1>4, <1>5 DEF AtRest

\* One read applied: what was there is kept, what the system may do is done.
LEMMA ApplyReadKeeps ==
  ASSUME NEW prev \in Hyp \cup {None}, NEW r \in Read,
         prev # None => AtRest(prev) /\ Chained(prev)
  PROVE  LET g == ApplyRead(prev, r)
         IN  /\ AtRest(g) /\ Chained(g)
             /\ g.state = "EXPLORING" => ~r.confident
             /\ g.state \in {"CANDIDATE", "ACTIVE"} =>
                  prev # None /\ g.state = prev.state /\ g.history = prev.history
             /\ prev # None => IsPrefix(prev.history, g.history) /\ g.artifact = prev.artifact
<1> DEFINE h == IF prev = None THEN Created ELSE prev
           f == Fresh(prev, r)
           g == ApplyRead(prev, r)
<1>1. g = Advance(f)
  BY DEF ApplyRead, Fresh
<1>2. /\ f \in Hyp /\ AtRest(f) /\ Chained(f)
      /\ f.history = h.history /\ f.state = h.state /\ f.artifact = h.artifact
      /\ f.confident = r.confident
  BY FreshKeeps
<1>3. /\ AtRest(g) /\ Chained(g)
      /\ IsPrefix(f.history, g.history)
      /\ g.artifact = f.artifact
      /\ g.state \in {"CANDIDATE", "ACTIVE"} => g = f
      /\ g.state = "EXPLORING" => ~f.confident
  BY <1>1, <1>2, AdvanceKeeps
<1>4. Created.state = "EXPLORING"
  BY DEF Created
<1>5. QED
  BY <1>2, <1>3, <1>4

\* advance settles: applied to its own result, with no new evidence, it moves
\* nothing unless it has just made an exploring hypothesis emerge.
LEMMA ApplyReadSettles ==
  ASSUME NEW prev \in Hyp, NEW r \in Read, AtRest(prev), Chained(prev),
         prev.state = "EXPLORING" => ~r.confident
  PROVE  ApplyRead(ApplyRead(prev, r), r) = ApplyRead(prev, r)
<1> DEFINE f == Fresh(prev, r)
           g == ApplyRead(prev, r)
<1>0. prev # None
  BY NoneAssumption
<1>1. /\ f \in Hyp /\ AtRest(f) /\ Chained(f) /\ f.state = prev.state
      /\ f.confident = r.confident /\ f.high = r.high
      /\ f.wasAbove = (prev.wasAbove \/ r.high)
  BY <1>0, FreshKeeps
<1>2. g = Advance(f)
  BY DEF ApplyRead, Fresh
<1>3. g = f \/ g = WithState(f, "CONTESTED", System)
  BY <1>1, <1>2 DEF Advance
<1>4. LET w == WithState(f, "CONTESTED", System)
      IN  /\ w.state = "CONTESTED"
          /\ w.confident = f.confident /\ w.high = f.high /\ w.wasAbove = f.wasAbove
  <2>1. "CONTESTED" \in Lifecycle /\ System \in Human \cup {System}
    BY DEF Lifecycle
  <2>2. QED
    BY <1>1, <2>1, WithStateType
<1>5. g \in Hyp /\ g # None
  BY <1>1, <1>2, AdvanceKeeps, NoneAssumption DEF AtRest
<1>6. g.confident = f.confident /\ g.high = f.high /\ g.wasAbove = f.wasAbove
  BY <1>3, <1>4
<1>7. Fresh(g, r) = g
  <2>1. g.wasAbove \in BOOLEAN /\ g.high \in BOOLEAN /\ (g.wasAbove \/ r.high) = g.wasAbove
    BY <1>1, <1>5, <1>6 DEF Hyp, Read
  <2>2. Fresh(g, r) = [g EXCEPT !.confident = r.confident, !.high = r.high,
                                !.wasAbove = g.wasAbove \/ r.high]
    BY <1>5 DEF Fresh
  <2>3. QED
    BY <1>1, <1>5, <1>6, <2>1, <2>2 DEF Hyp
<1>8. Advance(g) = g
  <2>1. CASE g = f
    BY <1>2, <2>1
  <2>2. CASE g = WithState(f, "CONTESTED", System)
    BY <1>4, <2>2 DEF Advance
  <2>3. QED
    BY <1>3, <2>1, <2>2
<1>9. QED
  BY <1>7, <1>8 DEF ApplyRead, Fresh

-----------------------------------------------------------------------------
(* The moves of a human *)

\* What a move to g makes of h: a hypothesis at rest, with h's past in front of
\* its own and the actor's name on what was added last.
MovedOn(h, g, to, actor) ==
  /\ AtRest(g) /\ Chained(g)
  /\ g.state = to /\ g.artifact = h.artifact
  /\ IsPrefix(h.history, g.history)
  /\ Len(g.history) > Len(h.history)
  /\ g.history[Len(g.history)].actor = actor

\* One legal move.
LEMMA OneMove ==
  ASSUME NEW h \in Hyp, Chained(h), NEW to \in Lifecycle \ {"REOPENED"}, NEW actor \in Human,
         CanTransition(h.state, to, "human")
  PROVE  MovedOn(h, WithState(h, to, actor), to, actor)
<1> DEFINE g == WithState(h, to, actor)
<1>1. actor # System /\ actor \in Human \cup {System}
  BY SystemAssumption
<1>2. /\ g \in Hyp /\ g.state = to /\ g.artifact = h.artifact
      /\ g.history = Append(h.history, [from |-> h.state, to |-> to, actor |-> actor])
  BY <1>1, WithStateType
<1>3. Chained(g) /\ IsPrefix(h.history, g.history)
  BY <1>1, WithStateChained, WithStatePrefix
<1>4. Len(g.history) = Len(h.history) + 1 /\ g.history[Len(g.history)].actor = actor
  BY <1>2 DEF Hyp
<1>5. Len(h.history) \in Nat
  BY DEF Hyp
<1>6. QED
  BY <1>2, <1>3, <1>4, <1>5 DEF MovedOn, AtRest

LEMMA PromotedKeeps ==
  ASSUME NEW h \in Hyp, Chained(h), NEW actor \in Human, NEW passed, NEW signOff,
         MayPromote(h, actor, passed, signOff)
  PROVE  MovedOn(h, Promoted(h, actor), Promotion(h), actor)
BY OneMove DEF MayPromote, Promoted, Promotion, Lifecycle

LEMMA ParkedKeeps ==
  ASSUME NEW h \in Hyp, Chained(h), NEW actor \in Human, MayPark(h, actor)
  PROVE  MovedOn(h, Parked(h, actor), "PARKED", actor)
BY OneMove DEF MayPark, Parked, Lifecycle

LEMMA ContestedKeeps ==
  ASSUME NEW h \in Hyp, Chained(h), NEW actor \in Human, MayContest(h, actor)
  PROVE  MovedOn(h, Contested(h, actor), "CONTESTED", actor)
BY OneMove DEF MayContest, Contested, Lifecycle

\* A reopen passes through REOPENED and does not rest there.
LEMMA ReopenedKeeps ==
  ASSUME NEW h \in Hyp, Chained(h), NEW actor \in Human, MayReopen(h, actor)
  PROVE  MovedOn(h, Reopened(h, actor), "EMERGING", actor)
<1> DEFINE f == WithState(h, "REOPENED", actor)
           g == WithState(f, "EMERGING", actor)
<1>1. actor # System /\ actor \in Human \cup {System}
  BY SystemAssumption
<1>2. "REOPENED" \in Lifecycle /\ "EMERGING" \in Lifecycle \ {"REOPENED"}
  BY DEF Lifecycle
<1>3. CanTransition(h.state, "REOPENED", IF actor = System THEN "auto" ELSE "human")
  BY <1>1 DEF MayReopen, CanTransition, ByHuman
<1>4. /\ f \in Hyp /\ f.state = "REOPENED" /\ f.artifact = h.artifact
      /\ f.history = Append(h.history, [from |-> h.state, to |-> "REOPENED", actor |-> actor])
  BY <1>1, <1>2, WithStateType
<1>5. Chained(f) /\ IsPrefix(h.history, f.history)
  BY <1>1, <1>2, <1>3, WithStateChained, WithStatePrefix
<1>6. CanTransition(f.state, "EMERGING", "human")
  BY <1>4 DEF CanTransition, ByHuman
<1>7. MovedOn(f, g, "EMERGING", actor)
  BY <1>2, <1>4, <1>5, <1>6, OneMove
<1>8. IsPrefix(h.history, g.history)
  <2>1. h.history \in Seq(Entry) /\ f.history \in Seq(Entry) /\ g.history \in Seq(Entry)
    BY <1>4, <1>7 DEF MovedOn, AtRest, Hyp
  <2>2. IsPrefix(f.history, g.history)
    BY <1>7 DEF MovedOn
  <2>3. QED
    BY <1>5, <2>1, <2>2 DEF IsPrefix
<1>9. Len(g.history) > Len(h.history)
  BY <1>4, <1>7 DEF MovedOn, AtRest, Hyp
<1>10. QED
  BY <1>4, <1>7, <1>8, <1>9 DEF MovedOn, Reopened
=============================================================================
