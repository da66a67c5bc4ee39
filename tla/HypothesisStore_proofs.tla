----------------------- MODULE HypothesisStore_proofs -----------------------
(***************************************************************************)
(* What holds of a child's hypotheses for every set of cells and humans    *)
(* and every bound on their histories.                                     *)
(***************************************************************************)
EXTENDS HypothesisStore, Hypothesis_proofs

\* attachArtifacts changes nothing else, and takes no artifact away.
LEMMA AttachType ==
  ASSUME NEW g \in Hyp, NEW has \in BOOLEAN
  PROVE  LET h == Attach(g, has)
         IN  /\ h \in Hyp /\ h.state = g.state /\ h.history = g.history
             /\ g.artifact => h.artifact
<1>1. g # None
  BY NoneAssumption
<1> DEFINE h == Attach(g, has)
<1>2. h = [g EXCEPT !.artifact = g.artifact \/ has]
  BY <1>1 DEF Attach
<1>3. QED
  BY <1>2 DEF Hyp

-----------------------------------------------------------------------------
(* The inductive invariant *)

\* Behind a promoted hypothesis h of cell c: a gate that was passed since it last
\* stood outside, and the humans who moved it.
Backed(h, c) ==
  LET n == Len(h.history) IN
    h.state \in {"CANDIDATE", "ACTIVE"} =>
      /\ h.artifact /\ c \in proven
      /\ h.history[n].actor \in Human
      /\ h.state = "ACTIVE" => /\ h.history[n - 1].to = "CANDIDATE"
                               /\ h.history[n - 1].actor \in Human

\* The belief about c, if there is one, was applied: nothing still explores that it
\* makes emerge.
Current(h, c) == read[c] # None /\ h.state = "EXPLORING" => ~read[c].confident

\* Sound(h, c) is what HistoryLegal, PromotionStands and ReplaySettles need of
\* one cell to be inductive.
Sound(h, c) ==
  /\ AtRest(h) /\ Chained(h)
  /\ Backed(h, c)
  /\ Current(h, c)

IInv ==
  /\ TypeOK
  /\ \A c \in Cell : store[c] # None => Sound(store[c], c)

\* What NothingErased asks of a step.
Kept ==
  \A c \in Cell : store[c] # None =>
    store'[c] # None /\ IsPrefix(store[c].history, store'[c].history)

LEMMA InitIInv == Init => IInv
BY NoneAssumption DEF Init, IInv, TypeOK

\* A cycle, whatever the log now shows: the empty batch's replay included.
LEMMA CycleKeepsIInv ==
  ASSUME IInv, Remember,
         read' \in [Cell -> Read \cup {None}], earned' \subseteq Cell, ripe' \subseteq Cell,
         store' = CycleStore(read', earned')
  PROVE  IInv' /\ Kept
<1>1. ASSUME NEW c \in Cell
      PROVE  /\ store'[c] \in Hyp \cup {None}
             /\ store'[c] # None => Sound(store[c], c)'
             /\ store[c] # None =>
                  store'[c] # None /\ IsPrefix(store[c].history, store'[c].history)
  <2> DEFINE r == read'[c]
             g == Applied(store[c], r)
             h == Attach(g, c \in earned')
  <2>1. /\ store[c] \in Hyp \cup {None} /\ r \in Read \cup {None}
        /\ store[c] # None => Sound(store[c], c)
    BY DEF IInv, TypeOK
  <2>2. store'[c] = h
    BY DEF CycleStore
  <2>3. /\ g # None =>
             /\ AtRest(g) /\ Chained(g)
             /\ r # None /\ g.state = "EXPLORING" => ~r.confident
             /\ g.state \in {"CANDIDATE", "ACTIVE"} =>
                  store[c] # None /\ g.state = store[c].state /\ g.history = store[c].history
        /\ store[c] # None =>
             g # None /\ IsPrefix(store[c].history, g.history) /\ g.artifact = store[c].artifact
    <3>1. CASE r = None
      <4>1. g = store[c]
        BY <3>1 DEF Applied
      <4>2. store[c] # None => IsPrefix(store[c].history, store[c].history)
        BY <2>1 DEF Hyp, IsPrefix
      <4> HIDE DEF g
      <4>3. QED
        BY <2>1, <3>1, <4>1, <4>2 DEF Sound
    <3>2. CASE r # None
      <4>1. g = ApplyRead(store[c], r) /\ r \in Read
        BY <2>1, <3>2 DEF Applied
      <4>2. store[c] # None => AtRest(store[c]) /\ Chained(store[c])
        BY <2>1 DEF Sound
      <4> HIDE DEF g
      <4>3. /\ AtRest(g) /\ Chained(g)
            /\ g.state = "EXPLORING" => ~r.confident
            /\ g.state \in {"CANDIDATE", "ACTIVE"} =>
                 store[c] # None /\ g.state = store[c].state /\ g.history = store[c].history
            /\ store[c] # None =>
                 IsPrefix(store[c].history, g.history) /\ g.artifact = store[c].artifact
        BY <2>1, <4>1, <4>2, ApplyReadKeeps
      <4>4. g # None
        BY <4>3, NoneAssumption DEF AtRest
      <4>5. QED
        BY <4>3, <4>4
    <3>3. QED
      BY <3>1, <3>2
  <2> HIDE DEF g
  <2>4. CASE g = None
    <3>1. h = None
      BY <2>4 DEF Attach
    <3>2. QED
      BY <2>2, <2>3, <2>4, <3>1
  <2>5. CASE g # None
    <3>1. /\ h \in Hyp /\ h.state = g.state /\ h.history = g.history
          /\ g.artifact => h.artifact
      <4>1. g \in Hyp /\ (c \in earned') \in BOOLEAN
        BY <2>3, <2>5 DEF AtRest
      <4>2. QED
        BY <4>1, AttachType, Zenon
    <3> HIDE DEF h
    <3>2. h # None
      BY <3>1, NoneAssumption
    <3>3. AtRest(h) /\ Chained(h)
      BY <2>3, <2>5, <3>1 DEF AtRest, Chained
    <3>4. Backed(store[c], c)'
      <4>1. CASE h.state \in {"CANDIDATE", "ACTIVE"}
        <5>1. /\ store[c] # None /\ h.state = store[c].state
              /\ h.history = store[c].history /\ (store[c].artifact => h.artifact)
          BY <2>3, <2>5, <3>1, <4>1
        <5>2. Backed(store[c], c)
          BY <2>1, <5>1 DEF Sound
        <5>3. h.artifact /\ c \in proven
          BY <4>1, <5>1, <5>2 DEF Backed
        <5>4. c \in proven'
          BY <2>2, <3>2, <4>1, <5>3 DEF Remember, StandsPromoted
        <5>5. QED
          BY <2>2, <5>1, <5>2, <5>3, <5>4 DEF Backed
      <4>2. CASE h.state \notin {"CANDIDATE", "ACTIVE"}
        BY <2>2, <4>2 DEF Backed
      <4>3. QED
        BY <4>1, <4>2
    <3>5. Current(store[c], c)'
      BY <2>2, <2>3, <2>5, <3>1 DEF Current
    <3>6. QED
      BY <2>2, <2>3, <2>5, <3>1, <3>2, <3>3, <3>4, <3>5 DEF Sound
  <2>6. QED
    BY <2>4, <2>5
<1>2. store' \in [Cell -> Hyp \cup {None}]
  BY <1>1 DEF CycleStore
<1>3. TypeOK'
  <2>1. ripe' \subseteq proven' /\ proven' \subseteq Cell
    BY DEF Remember, IInv, TypeOK
  <2>2. QED
    BY <1>1, <1>2, <2>1 DEF TypeOK, Sound, AtRest
<1>4. QED
  BY <1>1, <1>3 DEF IInv, Kept

\* A human's decision about c: whatever it makes of the hypothesis is sound.
LEMMA PutKeepsIInv ==
  ASSUME IInv, Remember, NEW c \in Cell, NEW h, store[c] # None, Put(c, h),
         AtRest(h), Chained(h), h.state # "EXPLORING", IsPrefix(store[c].history, h.history),
         Backed(h, c)
  PROVE  IInv' /\ Kept
<1>1. /\ store' = [store EXCEPT ![c] = h]
      /\ UNCHANGED <<read, earned, ripe>>
  BY DEF Put
<1>2. h \in Hyp /\ h # None
  BY NoneAssumption DEF AtRest
<1>3. store'[c] = h /\ \A d \in Cell \ {c} : store'[d] = store[d]
  BY <1>1 DEF IInv, TypeOK
<1>4. Sound(store[c], c)
  BY DEF IInv
<1>5. Sound(store[c], c)'
  <2>1. h.state \in {"CANDIDATE", "ACTIVE"} => c \in proven'
    BY <1>2, <1>3 DEF Backed, Remember, StandsPromoted
  <2>2. Backed(store[c], c)'
    BY <1>3, <2>1 DEF Backed
  <2>3. QED
    BY <1>3, <2>2 DEF Sound, Current
<1>6. ASSUME NEW d \in Cell \ {c}, store[d] # None
      PROVE  Sound(store[d], d)'
  <2>1. Sound(store[d], d) /\ store'[d] = store[d]
    BY <1>3, <1>6 DEF IInv
  <2>2. store[d].state \in {"CANDIDATE", "ACTIVE"} /\ d \in proven => d \in proven'
    BY <1>6, <2>1 DEF Remember, StandsPromoted
  <2>3. Backed(store[d], d)'
    BY <2>1, <2>2 DEF Sound, Backed
  <2>4. QED
    BY <1>1, <2>1, <2>3 DEF Sound, Current
<1>7. TypeOK'
  <2>1. store' \in [Cell -> Hyp \cup {None}]
    BY <1>1, <1>2 DEF IInv, TypeOK
  <2>2. ripe' \subseteq proven' /\ proven' \subseteq Cell
    BY <1>1 DEF Remember, IInv, TypeOK
  <2>3. QED
    BY <1>1, <1>3, <2>1, <2>2 DEF IInv, TypeOK, AtRest
<1>8. \A d \in Cell : IsPrefix(store[d].history, store[d].history) \/ store[d] = None
  BY DEF IInv, TypeOK, Hyp, IsPrefix
<1>9. Kept
  BY <1>2, <1>3, <1>8 DEF Kept
<1>10. QED
  BY <1>3, <1>5, <1>6, <1>7, <1>9 DEF IInv

\* The decisions that end outside the promoted states: park, contest and reopen.
LEMMA DecisionKeepsIInv ==
  ASSUME IInv, Remember, NEW c \in Cell, store[c] # None,
         NEW to, to \notin {"EXPLORING", "CANDIDATE", "ACTIVE"}, NEW actor,
         NEW g, MovedOn(store[c], g, to, actor), Put(c, g)
  PROVE  IInv' /\ Kept
<1>1. AtRest(g) /\ Chained(g)
  BY DEF MovedOn
<1>2. g.state # "EXPLORING" /\ Backed(g, c) /\ IsPrefix(store[c].history, g.history)
  BY DEF MovedOn, Backed
<1>3. QED
  BY <1>1, <1>2, PutKeepsIInv

-----------------------------------------------------------------------------
(* The theorems *)

\* Every step keeps the invariant, and loses nothing of what was there.
LEMMA StepKeepsIInv ==
  ASSUME IInv, [Next]_vars
  PROVE  IInv' /\ (Kept \/ UNCHANGED vars)
<1>0. \A c \in Cell : store[c] # None => store[c] \in Hyp /\ Sound(store[c], c)
  BY DEF IInv, TypeOK
<1>1. CASE Cycle /\ Remember
  <2>1. earned' \subseteq Cell /\ ripe' \subseteq Cell
    BY <1>1 DEF Cycle, Seen, IInv, TypeOK
  <2>2. QED
    BY <1>1, <2>1, CycleKeepsIInv DEF Cycle
<1>2. CASE Replay /\ Remember
  BY <1>2, CycleKeepsIInv DEF Replay, IInv, TypeOK
<1>3. ASSUME NEW c \in Cell, NEW actor \in Human \cup {System}, NEW signOff \in BOOLEAN,
             Promote(c, actor, signOff), Remember
      PROVE  IInv' /\ Kept
  <2> DEFINE h == store[c]
             to == Promotion(h)
             g == Promoted(h, actor)
             n == Len(h.history)
  <2>1. /\ h # None /\ h \in Hyp /\ Sound(h, c)
        /\ MayPromote(h, actor, GatePassed(h, c \in ripe), signOff)
    BY <1>0, <1>3 DEF Promote
  <2>2. actor \in Human
    BY <2>1 DEF MayPromote
  <2>3. to \in {"CANDIDATE", "ACTIVE"}
    BY DEF Promotion
  <2>4. MovedOn(h, g, to, actor)
    BY <2>1, <2>2, PromotedKeeps DEF Sound
  <2>5. /\ g \in Hyp /\ g.state = to /\ g.artifact = h.artifact
        /\ g.history = Append(h.history, [from |-> h.state, to |-> to, actor |-> actor])
    BY <2>1, <2>2, <2>3, WithStateType DEF Promoted, Lifecycle
  <2>6. AtRest(g) /\ Chained(g) /\ IsPrefix(h.history, g.history)
    BY <2>4 DEF MovedOn
  <2>7. h.artifact /\ c \in proven
    BY <2>1 DEF MayPromote, Promotion, GatePassed, Sound, Backed, IInv, TypeOK
  <2>8. Backed(g, c)
    <3>1. n \in Nat /\ n >= 1 /\ h.history[n].to = h.state /\ h.history \in Seq(Entry)
      BY <2>1 DEF Sound, Chained, Hyp
    <3>2. /\ Len(g.history) = n + 1 /\ g.history[n] = h.history[n]
          /\ g.history[n + 1].actor = actor
      BY <2>5, <3>1
    <3>3. to = "ACTIVE" => h.state = "CANDIDATE" /\ h.history[n].actor \in Human
      BY <2>1 DEF Promotion, Sound, Backed
    <3>4. QED
      BY <2>2, <2>5, <2>7, <3>1, <3>2, <3>3 DEF Backed
  <2>9. Put(c, g)
    BY <1>3 DEF Promote
  <2>10. g.state # "EXPLORING"
    BY <2>3, <2>5
  <2>11. QED
    BY <1>3, <2>1, <2>5, <2>6, <2>8, <2>9, <2>10, PutKeepsIInv
<1>4. ASSUME NEW c \in Cell, NEW actor \in Human \cup {System}, Park(c, actor), Remember
      PROVE  IInv' /\ Kept
  <2>1. /\ store[c] # None /\ store[c] \in Hyp /\ Chained(store[c])
        /\ MayPark(store[c], actor) /\ Put(c, Parked(store[c], actor))
    BY <1>0, <1>4 DEF Park, Sound
  <2>2. MovedOn(store[c], Parked(store[c], actor), "PARKED", actor)
    BY <2>1, ParkedKeeps DEF MayPark
  <2>3. QED
    BY <1>4, <2>1, <2>2, DecisionKeepsIInv
<1>5. ASSUME NEW c \in Cell, NEW actor \in Human \cup {System}, Contest(c, actor), Remember
      PROVE  IInv' /\ Kept
  <2>1. /\ store[c] # None /\ store[c] \in Hyp /\ Chained(store[c])
        /\ MayContest(store[c], actor) /\ Put(c, Contested(store[c], actor))
    BY <1>0, <1>5 DEF Contest, Sound
  <2>2. MovedOn(store[c], Contested(store[c], actor), "CONTESTED", actor)
    BY <2>1, ContestedKeeps DEF MayContest
  <2>3. QED
    BY <1>5, <2>1, <2>2, DecisionKeepsIInv
<1>6. ASSUME NEW c \in Cell, NEW actor \in Human \cup {System}, Reopen(c, actor), Remember
      PROVE  IInv' /\ Kept
  <2>1. /\ store[c] # None /\ store[c] \in Hyp /\ Chained(store[c])
        /\ MayReopen(store[c], actor) /\ Put(c, Reopened(store[c], actor))
    BY <1>0, <1>6 DEF Reopen, Sound
  <2>2. MovedOn(store[c], Reopened(store[c], actor), "EMERGING", actor)
    BY <2>1, ReopenedKeeps DEF MayReopen
  <2>3. QED
    BY <1>6, <2>1, <2>2, DecisionKeepsIInv
<1>7. CASE UNCHANGED vars
  BY <1>7 DEF vars, IInv, TypeOK, Sound, Backed, Current
<1>8. QED
  BY <1>1, <1>2, <1>3, <1>4, <1>5, <1>6, <1>7 DEF Next, Moves

\* However cycles, replays and decisions interleave, the store keeps its type,
\* and no hypothesis rests halfway through a reopen.
THEOREM TypeCorrect == Spec => []TypeOK
<1>1. IInv => TypeOK
  BY DEF IInv
<1>2. QED
  BY <1>1, InitIInv, StepKeepsIInv, PTL DEF Spec

\* Every history is whole, from its creation to its state, and every move in it
\* was within the authority of the actor it names.
THEOREM HistoriesAreLegal == Spec => []HistoryLegal
<1>1. IInv => HistoryLegal
  BY DEF IInv, HistoryLegal, Sound
<1>2. QED
  BY <1>1, InitIInv, StepKeepsIInv, PTL DEF Spec

\* What stands promoted was promoted by a human, and passed its gate since it last
\* stood outside, whatever the cycles in between inferred: a late record may take
\* the ripe returns away at any step.
THEOREM PromotionsStand == Spec => []PromotionStands
<1>1. IInv => PromotionStands
  BY DEF IInv, PromotionStands, Sound, Backed, StandsPromoted
<1>2. QED
  BY <1>1, InitIInv, StepKeepsIInv, PTL DEF Spec

\* Re-applying the current read moves a hypothesis at most once.
THEOREM ReplaysSettle == Spec => []ReplaySettles
<1>1. ASSUME IInv PROVE ReplaySettles
  <2>1. ASSUME NEW c \in Cell, store[c] # None
        PROVE  Applied(Applied(store[c], read[c]), read[c]) = Applied(store[c], read[c])
    <3>1. CASE read[c] = None
      BY <3>1 DEF Applied
    <3>2. CASE read[c] # None
      <4>1. store[c] \in Hyp /\ read[c] \in Read
        BY <1>1, <2>1, <3>2 DEF IInv, TypeOK
      <4>2. /\ AtRest(store[c]) /\ Chained(store[c])
            /\ store[c].state = "EXPLORING" => ~read[c].confident
        BY <1>1, <2>1, <3>2 DEF IInv, Sound, Current
      <4>3. ApplyRead(ApplyRead(store[c], read[c]), read[c]) = ApplyRead(store[c], read[c])
        BY <4>1, <4>2, ApplyReadSettles
      <4>4. QED
        BY <3>2, <4>3 DEF Applied
    <3>3. QED
      BY <3>1, <3>2
  <2>2. QED
    BY <2>1 DEF ReplaySettles
<1>2. QED
  BY <1>1, InitIInv, StepKeepsIInv, PTL DEF Spec

\* No step, of the system or of a human, loses a hypothesis or rewrites its past.
THEOREM NothingIsErased == Spec => NothingErased
<1>1. ASSUME IInv, [Next]_vars
      PROVE  [\A c \in Cell : store[c] # None =>
                /\ store'[c] # None
                /\ IsPrefix(store[c].history, store'[c].history)]_vars
  BY <1>1, StepKeepsIInv DEF Kept
<1>2. QED
  BY <1>1, InitIInv, StepKeepsIInv, PTL DEF Spec, NothingErased

=============================================================================
