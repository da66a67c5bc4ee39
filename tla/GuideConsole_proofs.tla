------------------------- MODULE GuideConsole_proofs -------------------------
(***************************************************************************)
(* What a guide's browser shows, for any number of tabs, hypotheses,       *)
(* decisions and changes of the profile.                                   *)
(*                                                                         *)
(* A store on screen is a replay of a log over a roster, so what holds of  *)
(* it is what every replay gives: shown by induction on the log.           *)
(***************************************************************************)
EXTENDS GuideConsole, Hypothesis_proofs, Induction

-----------------------------------------------------------------------------
(* The replay of a log *)

\* f is the loop of applyDecisions over the first N decisions of dlog.
IsLoop(ro, dlog, N, f) ==
  f = [n \in 0..N |-> IF n = 0 THEN ro.hyps ELSE Decided(ro, f[n - 1], dlog[n])]

\* The loop runs to its end: there is one value for every turn.
LEMMA LoopExists ==
  ASSUME NEW ro, NEW dlog, NEW N \in Nat
  PROVE  \E f : IsLoop(ro, dlog, N, f)
<1> DEFINE S == {n \in Nat : \E f : IsLoop(ro, dlog, n, f)}
<1>1. 0 \in S
  <2>1. IsLoop(ro, dlog, 0, [n \in 0..0 |-> ro.hyps])
    BY DEF IsLoop
  <2>2. QED
    BY <2>1
<1>2. ASSUME NEW n \in S
      PROVE  n + 1 \in S
  <2>1. PICK f : IsLoop(ro, dlog, n, f)
    OBVIOUS
  <2> DEFINE g == [k \in 0..(n + 1) |-> IF k <= n THEN f[k]
                                        ELSE Decided(ro, f[n], dlog[n + 1])]
  <2>2. \A k \in 0..n : f[k] = IF k = 0 THEN ro.hyps ELSE Decided(ro, f[k - 1], dlog[k])
    BY <2>1 DEF IsLoop
  <2>3. ASSUME NEW k \in 0..(n + 1)
        PROVE  g[k] = IF k = 0 THEN ro.hyps ELSE Decided(ro, g[k - 1], dlog[k])
    <3>1. CASE k = n + 1
      <4>1. g[k] = Decided(ro, f[n], dlog[k]) /\ g[k - 1] = f[n]
        BY <3>1
      <4>2. QED
        BY <3>1, <4>1
    <3>2. CASE k # n + 1
      <4>1. k \in 0..n /\ g[k] = f[k] /\ (k # 0 => g[k - 1] = f[k - 1])
        BY <3>2
      <4> HIDE DEF g
      <4>2. QED
        BY <2>2, <4>1
    <3>3. QED
      BY <3>1, <3>2
  <2>4. IsLoop(ro, dlog, n + 1, g)
    <3>1. g = [k \in 0..(n + 1) |-> g[k]]
      OBVIOUS
    <3> HIDE DEF g
    <3>2. QED
      BY <2>3, <3>1 DEF IsLoop
  <2>5. QED
    BY <2>4
<1>3. S = Nat
  <2> HIDE DEF S
  <2>1. S \in SUBSET Nat
    BY DEF S
  <2>2. QED
    BY <1>1, <1>2, <2>1, NatSetInduction
<1>4. QED
  BY <1>3

\* What Replay returns is the loop's last value.
LEMMA ReplayIsLoop ==
  ASSUME NEW ro, NEW dlog \in Seq(Decision)
  PROVE  \E f : IsLoop(ro, dlog, Len(dlog), f) /\ Replay(ro, dlog) = f[Len(dlog)]
<1> DEFINE after == CHOOSE f : IsLoop(ro, dlog, Len(dlog), f)
<1>1. IsLoop(ro, dlog, Len(dlog), after)
  BY LoopExists
<1>2. Replay(ro, dlog) = after[Len(dlog)]
  BY DEF Replay, IsLoop
<1>3. QED
  BY <1>1, <1>2

\* Nothing decided: the roster as it came.
LEMMA ReplayNothing == ASSUME NEW ro PROVE Replay(ro, <<>>) = ro.hyps
<1>1. <<>> \in Seq(Decision) /\ Len(<<>>) = 0
  OBVIOUS
<1>2. PICK f : IsLoop(ro, <<>>, 0, f) /\ Replay(ro, <<>>) = f[0]
  BY <1>1, ReplayIsLoop
<1>3. QED
  BY <1>2 DEF IsLoop

\* One more decision is one more turn of the loop, so recording a decision and
\* replaying the longer log come to the same.
LEMMA ReplayOneMore ==
  ASSUME NEW ro, NEW dlog \in Seq(Decision), NEW d \in Decision
  PROVE  Replay(ro, Append(dlog, d)) = Decided(ro, Replay(ro, dlog), d)
<1> DEFINE longer == Append(dlog, d)
           N      == Len(dlog)
<1>1. /\ longer \in Seq(Decision) /\ N \in Nat /\ Len(longer) = N + 1
      /\ longer[N + 1] = d /\ \A n \in 1..N : longer[n] = dlog[n]
  OBVIOUS
<1>2. PICK f : IsLoop(ro, dlog, N, f) /\ Replay(ro, dlog) = f[N]
  BY ReplayIsLoop
<1>3. PICK g : IsLoop(ro, longer, N + 1, g) /\ Replay(ro, longer) = g[N + 1]
  BY <1>1, ReplayIsLoop
<1> HIDE DEF longer, N
<1>4. \A n \in 0..N : f[n] = IF n = 0 THEN ro.hyps ELSE Decided(ro, f[n - 1], dlog[n])
  BY <1>2 DEF IsLoop
<1>5. \A n \in 0..(N + 1) : g[n] = IF n = 0 THEN ro.hyps ELSE Decided(ro, g[n - 1], longer[n])
  BY <1>3 DEF IsLoop
<1>6. 0..N \subseteq {n \in Nat : g[n] = f[n]}
  <2> DEFINE S == {n \in Nat : g[n] = f[n]}
  <2>1. 0 \in S
    <3>1. 0 \in 0..N /\ 0 \in 0..(N + 1) /\ 0 \in Nat
      BY <1>1
    <3>2. f[0] = ro.hyps
      BY <1>4, <3>1
    <3>3. g[0] = ro.hyps
      BY <1>5, <3>1
    <3>4. QED
      BY <3>1, <3>2, <3>3
  <2>2. ASSUME NEW n \in 0..(N - 1), n \in S
        PROVE  n + 1 \in S
    <3>1. n + 1 \in 1..N /\ n + 1 \in 0..(N + 1) /\ n + 1 # 0 /\ (n + 1) - 1 = n
      BY <1>1
    <3>2. f[n + 1] = Decided(ro, f[n], dlog[n + 1])
      BY <1>4, <3>1
    <3>3. g[n + 1] = Decided(ro, g[n], longer[n + 1])
      BY <1>5, <3>1
    <3>4. QED
      BY <1>1, <2>2, <3>1, <3>2, <3>3
  <2> HIDE DEF S
  <2>3. 0..N \subseteq S
    BY <1>1, <2>1, <2>2, BoundedSetInduction
  <2>4. QED
    BY <2>3 DEF S
<1>7. g[N + 1] = Decided(ro, g[N], longer[N + 1])
  BY <1>1, <1>5
<1>8. QED
  BY <1>1, <1>2, <1>3, <1>6, <1>7 DEF longer, N

-----------------------------------------------------------------------------
(* What a replay gives *)

\* A roster the server may send: what the system's own transitions lead to, so
\* nothing in it stands promoted.
Rostered(ro) ==
  /\ ro \in Roster
  /\ \A i \in Id : ro.hyps[i] # None =>
       /\ AtRest(ro.hyps[i]) /\ Chained(ro.hyps[i])
       /\ ro.hyps[i].state \notin {"CANDIDATE", "ACTIVE"}

\* Behind hypothesis h of id i, if it stands promoted: the guide, and the gate of
\* the roster.
Earned(ro, h, i) ==
  h.state \in {"CANDIDATE", "ACTIVE"} =>
    /\ ro.hyps[i] # None /\ ro.hyps[i].artifact /\ i \in ro.ripe
    /\ Last(h.history).actor = Guide

\* A store that may be on screen over roster ro.
Shown(ro, hyps) ==
  /\ hyps \in [Id -> Hyp \cup {None}]
  /\ \A i \in Id : hyps[i] # None =>
       AtRest(hyps[i]) /\ Chained(hyps[i]) /\ Earned(ro, hyps[i], i)

\* What hyps shows parked is what dlog parked last.
ParksOf(dlog, hyps) ==
  \A i \in Id : hyps[i] # None /\ LastAbout(dlog, i) = "park" => hyps[i].state = "PARKED"

\* A decision that is taken leaves hypothesis i well formed and keeps its gate.
LEMMA ApplyKeeps ==
  ASSUME NEW ro, NEW hyps, Shown(ro, hyps), NEW d \in Decision, Legal(ro, hyps, d)
  PROVE  LET h == Apply(hyps, d)[d.id]
         IN  /\ h \in Hyp /\ AtRest(h) /\ Chained(h) /\ Earned(ro, h, d.id)
             /\ d.action = "park" => h.state = "PARKED"
             /\ Apply(hyps, d) = [hyps EXCEPT ![d.id] = h]
<1> DEFINE i == d.id
           old == hyps[i]
           h == Apply(hyps, d)[i]
<1>1. /\ i \in Id /\ old \in Hyp /\ Chained(old) /\ Earned(ro, old, i)
      /\ d.action \in {"promote", "park", "reopen", "contest"}
  BY DEF Shown, Legal, Decision, Action
<1>2. Guide \in Human
  BY GuideAssumption
<1>3. PICK to \in Lifecycle :
        /\ MovedOn(old, h, to, Guide)
        /\ d.action = "park" => to = "PARKED"
        /\ to \in {"CANDIDATE", "ACTIVE"} => d.action = "promote"
        /\ Apply(hyps, d) = [hyps EXCEPT ![i] = h]
  <2>1. CASE d.action = "promote"
    <3>1. h = Promoted(old, Guide) /\ Apply(hyps, d) = [hyps EXCEPT ![i] = Promoted(old, Guide)]
      BY <1>1, <2>1 DEF Apply, Shown
    <3>2. MovedOn(old, h, Promotion(old), Guide)
      BY <1>1, <1>2, <2>1, <3>1, PromotedKeeps DEF Legal
    <3>3. Promotion(old) \in Lifecycle
      BY DEF Promotion, Lifecycle
    <3>4. QED
      BY <2>1, <3>1, <3>2, <3>3
  <2>2. CASE d.action = "park"
    <3>1. h = Parked(old, Guide) /\ Apply(hyps, d) = [hyps EXCEPT ![i] = Parked(old, Guide)]
      BY <1>1, <2>2 DEF Apply, Shown
    <3>2. MovedOn(old, h, "PARKED", Guide)
      BY <1>1, <1>2, <2>2, <3>1, ParkedKeeps DEF Legal
    <3>3. "PARKED" \in Lifecycle
      BY DEF Lifecycle
    <3>4. QED
      BY <3>1, <3>2, <3>3
  <2>3. CASE d.action = "reopen"
    <3>1. h = Reopened(old, Guide) /\ Apply(hyps, d) = [hyps EXCEPT ![i] = Reopened(old, Guide)]
      BY <1>1, <2>3 DEF Apply, Shown
    <3>2. MovedOn(old, h, "EMERGING", Guide)
      BY <1>1, <1>2, <2>3, <3>1, ReopenedKeeps DEF Legal
    <3>3. "EMERGING" \in Lifecycle
      BY DEF Lifecycle
    <3>4. QED
      BY <2>3, <3>1, <3>2, <3>3
  <2>4. CASE d.action = "contest"
    <3>1. h = Contested(old, Guide) /\ Apply(hyps, d) = [hyps EXCEPT ![i] = Contested(old, Guide)]
      BY <1>1, <2>4 DEF Apply, Shown
    <3>2. MovedOn(old, h, "CONTESTED", Guide)
      BY <1>1, <1>2, <2>4, <3>1, ContestedKeeps DEF Legal
    <3>3. "CONTESTED" \in Lifecycle
      BY DEF Lifecycle
    <3>4. QED
      BY <2>4, <3>1, <3>2, <3>3
  <2>5. QED
    BY <1>1, <2>1, <2>2, <2>3, <2>4
<1>4. h \in Hyp /\ AtRest(h) /\ Chained(h) /\ h.state = to /\ Last(h.history).actor = Guide
  BY <1>3 DEF MovedOn, AtRest, Last
<1>5. Earned(ro, h, i)
  <2>1. SUFFICES ASSUME to \in {"CANDIDATE", "ACTIVE"}
                 PROVE  ro.hyps[i] # None /\ ro.hyps[i].artifact /\ i \in ro.ripe
    BY <1>4 DEF Earned
  <2>2. MayPromote(old, Guide, GateOf(ro, i), TRUE)
    BY <1>3, <2>1 DEF Legal
  <2>3. CASE Promotion(old) = "CANDIDATE"
    BY <2>2, <2>3 DEF MayPromote, GateOf, GatePassed
  <2>4. CASE Promotion(old) # "CANDIDATE"
    BY <1>1, <2>4 DEF Promotion, Earned
  <2>5. QED
    BY <2>3, <2>4
<1>6. QED
  BY <1>3, <1>4, <1>5

\* The last decision about i is the one just recorded, if it is about i.
LEMMA LastAboutOneMore ==
  ASSUME NEW dlog \in Seq(Decision), NEW d \in Decision, NEW i \in Id
  PROVE  LastAbout(Append(dlog, d), i) = IF d.id = i THEN d.action ELSE LastAbout(dlog, i)
<1> DEFINE longer   == Append(dlog, d)
           N        == Len(dlog)
           about(l) == {n \in DOMAIN l : l[n].id = i}
<1>1. /\ N \in Nat /\ DOMAIN dlog = 1..N /\ DOMAIN longer = 1..(N + 1)
      /\ longer[N + 1] = d /\ \A n \in 1..N : longer[n] = dlog[n]
  OBVIOUS
<1> HIDE DEF longer, N
<1>2. CASE d.id = i
  <2>1. N + 1 \in about(longer) /\ \A n \in about(longer) : n \in Int /\ n <= N + 1
    BY <1>1, <1>2
  <2> HIDE DEF about
  <2>2. Max(about(longer)) = N + 1
    BY <1>1, <2>1 DEF Max
  <2>3. LastAbout(longer, i) = longer[Max(about(longer))].action
    BY <2>1 DEF LastAbout, about
  <2>4. QED
    BY <1>1, <1>2, <2>2, <2>3 DEF longer
<1>3. CASE d.id # i
  <2>1. about(longer) = about(dlog) /\ about(dlog) \in SUBSET (0..N)
    BY <1>1, <1>3
  <2>2. CASE about(dlog) = {}
    BY <1>3, <2>1, <2>2 DEF LastAbout, longer
  <2>3. CASE about(dlog) # {}
    <3>1. Max(about(dlog)) \in about(dlog)
      <4>1. PICK m \in about(dlog) : \A n \in about(dlog) : n <= m
        BY <1>1, <2>1, <2>3, GreatestOf
      <4>2. \A n \in about(dlog) : n \in Int
        BY <1>1
      <4> HIDE DEF about
      <4>3. QED
        BY <4>1, <4>2 DEF Max
    <3>2. longer[Max(about(dlog))] = dlog[Max(about(dlog))]
      BY <1>1, <3>1
    <3>3. QED
      BY <1>3, <2>1, <2>3, <3>2 DEF LastAbout, longer
  <2>4. QED
    BY <2>2, <2>3
<1>4. QED
  BY <1>2, <1>3

\* One turn of the loop.  A park that is refused is one of a hypothesis that is
\* parked already.
LEMMA DecidedKeeps ==
  ASSUME NEW ro, NEW hyps, Shown(ro, hyps),
         NEW dlog \in Seq(Decision), ParksOf(dlog, hyps), NEW d \in Decision
  PROVE  /\ Shown(ro, Decided(ro, hyps, d))
         /\ ParksOf(Append(dlog, d), Decided(ro, hyps, d))
<1> DEFINE h == Apply(hyps, d)[d.id]
<1>0. d.id \in Id
  BY DEF Decision
<1>1. CASE Legal(ro, hyps, d)
  <2>1. /\ h \in Hyp /\ AtRest(h) /\ Chained(h) /\ Earned(ro, h, d.id)
        /\ d.action = "park" => h.state = "PARKED"
        /\ Decided(ro, hyps, d) = [hyps EXCEPT ![d.id] = h]
    BY <1>1, ApplyKeeps DEF Decided
  <2> HIDE DEF h
  <2>2. Shown(ro, Decided(ro, hyps, d))
    BY <1>0, <2>1 DEF Shown
  <2>3. ParksOf(Append(dlog, d), Decided(ro, hyps, d))
    BY <1>0, <2>1, LastAboutOneMore DEF ParksOf, Shown
  <2>4. QED
    BY <2>2, <2>3
<1>2. CASE ~Legal(ro, hyps, d)
  <2>1. Decided(ro, hyps, d) = hyps
    BY <1>2 DEF Decided
  <2>2. ASSUME hyps[d.id] # None, d.action = "park"
        PROVE  hyps[d.id].state = "PARKED"
    <3>1. ~MayPark(hyps[d.id], Guide)
      BY <1>2, <2>2 DEF Legal
    <3>2. hyps[d.id].state \in Lifecycle
      BY <1>0, <2>2 DEF Shown, Hyp
    <3>3. QED
      BY <3>1, <3>2, GuideAssumption DEF MayPark, CanTransition, ByHuman
  <2>3. ParksOf(Append(dlog, d), hyps)
    BY <1>0, <2>2, LastAboutOneMore DEF ParksOf
  <2>4. QED
    BY <2>1, <2>3
<1>3. QED
  BY <1>1, <1>2

\* Whatever was decided, replayed over whatever the server sends.
LEMMA ReplayKeeps ==
  ASSUME NEW ro, Rostered(ro), NEW dlog \in Seq(Decision)
  PROVE  Shown(ro, Replay(ro, dlog)) /\ ParksOf(dlog, Replay(ro, dlog))
<1> DEFINE Good(l) == Shown(ro, Replay(ro, l)) /\ ParksOf(l, Replay(ro, l))
           S == {n \in Nat : \A l \in Seq(Decision) : Len(l) = n => Good(l)}
<1>1. 0 \in S
  <2>1. SUFFICES Good(<<>>)
    OBVIOUS
  <2>2. Replay(ro, <<>>) = ro.hyps
    BY ReplayNothing
  <2>3. Shown(ro, ro.hyps)
    BY DEF Rostered, Roster, Shown, Earned
  <2>4. \A i \in Id : LastAbout(<<>>, i) = None
    BY DEF LastAbout
  <2>5. ParksOf(<<>>, ro.hyps)
    BY <2>4, NothingAssumption DEF ParksOf, Action
  <2>6. QED
    BY <2>2, <2>3, <2>5
<1>2. ASSUME NEW n \in S
      PROVE  n + 1 \in S
  <2>1. SUFFICES ASSUME NEW l \in Seq(Decision), Len(l) = n + 1 PROVE Good(l)
    OBVIOUS
  <2>2. PICK k \in Seq(Decision), d \in Decision : l = Append(k, d) /\ Len(k) = n
    <3> DEFINE k == [m \in 1..n |-> l[m]]
    <3>1. k \in Seq(Decision) /\ Len(k) = n /\ l[n + 1] \in Decision
      BY <2>1
    <3>2. l = Append(k, l[n + 1])
      BY <2>1, <3>1
    <3>3. QED
      BY <3>1, <3>2
  <2>3. Good(k)
    BY <2>2
  <2>4. Replay(ro, l) = Decided(ro, Replay(ro, k), d)
    BY <2>2, ReplayOneMore
  <2>5. QED
    BY <2>2, <2>3, <2>4, DecidedKeeps
<1> HIDE DEF S
<1>3. S = Nat
  <2>1. S \in SUBSET Nat
    BY DEF S
  <2>2. QED
    BY <1>1, <1>2, <2>1, NatSetInduction
<1>4. QED
  BY <1>3 DEF S

-----------------------------------------------------------------------------
(* The inductive invariant *)

\* An open tab shows the replay of its log over a roster of the server's; a
\* closed one shows nothing.
IInv ==
  /\ TypeOK
  /\ LiveIsReplay
  /\ Rostered(served)
  /\ \A t \in Tab : Open(t) => Rostered(roster[t])
  /\ \A t \in Tab : ~Open(t) => live[t] = NoHyps

\* What an open tab shows follows from its being a replay.
LEMMA OpenShows ==
  ASSUME IInv, NEW t \in Tab, Open(t)
  PROVE  /\ roster[t] \in Roster /\ decisions[t] \in Seq(Decision)
         /\ live[t] = Replay(roster[t], decisions[t])
         /\ Shown(roster[t], live[t]) /\ ParksOf(decisions[t], live[t])
<1>1. /\ Rostered(roster[t]) /\ decisions[t] \in Seq(Decision)
      /\ live[t] = Replay(roster[t], decisions[t])
  BY DEF IInv, TypeOK, LiveIsReplay
<1>2. QED
  BY <1>1, ReplayKeeps DEF Rostered

LEMMA InitIInv == Init => IInv
<1> SUFFICES ASSUME Init PROVE IInv
  OBVIOUS
<1>1. NoHyps \in [Id -> Hyp \cup {None}] /\ \A i \in Id : NoHyps[i] = None
  BY DEF NoHyps
<1>2. served \in Roster /\ served.hyps = NoHyps
  BY <1>1 DEF Init, Roster
<1>3. TypeOK
  <2>1. /\ roster \in [Tab -> Roster \cup {None}]
        /\ live \in [Tab -> [Id -> Hyp \cup {None}]]
        /\ decisions \in [Tab -> Seq(Decision)]
        /\ reviewed \in [Tab -> BOOLEAN]
    BY <1>1 DEF Init
  <2>2. \A t \in Tab, i \in Id : live[t][i] = None
    BY <1>1 DEF Init
  <2>3. <<>> \in Seq(Decision)
    OBVIOUS
  <2>4. savedLog = <<>> /\ savedReview = FALSE /\ ingests = 0
    BY DEF Init
  <2>5. QED
    BY <1>2, <2>1, <2>2, <2>3, <2>4 DEF TypeOK
<1>4. \A t \in Tab : ~Open(t) /\ live[t] = NoHyps
  BY DEF Init, Open
<1>5. QED
  BY <1>1, <1>2, <1>3, <1>4 DEF IInv, LiveIsReplay, Rostered

\* One tab's roster, store and log replaced by a roster of the server's and a
\* replay, the rest of the tabs left alone.
LEMMA TabKeepsIInv ==
  ASSUME IInv, NEW t \in Tab, NEW ro, NEW dlog \in Seq(Decision), Rostered(ro),
         roster' = [roster EXCEPT ![t] = ro],
         live' = [live EXCEPT ![t] = Replay(ro, dlog)],
         decisions' = [decisions EXCEPT ![t] = dlog],
         reviewed' \in [Tab -> BOOLEAN],
         savedLog' \in Seq(Decision), savedReview' \in BOOLEAN,
         UNCHANGED <<served, ingests>>
  PROVE  IInv'
<1>1. /\ ro \in Roster /\ ro # None
      /\ Shown(ro, Replay(ro, dlog))
  BY ReplayKeeps, NothingAssumption DEF Rostered
<1>2. /\ roster \in [Tab -> Roster \cup {None}]
      /\ live \in [Tab -> [Id -> Hyp \cup {None}]]
      /\ decisions \in [Tab -> Seq(Decision)]
  BY DEF IInv, TypeOK
<1>3. /\ roster'[t] = ro /\ live'[t] = Replay(ro, dlog) /\ decisions'[t] = dlog
      /\ \A s \in Tab \ {t} : /\ roster'[s] = roster[s] /\ live'[s] = live[s]
                              /\ decisions'[s] = decisions[s]
  BY <1>2
<1>4. TypeOK'
  <2>1. Replay(ro, dlog) \in [Id -> Hyp \cup {None}]
    BY <1>1 DEF Shown
  <2>2. /\ roster' \in [Tab -> Roster \cup {None}]
        /\ live' \in [Tab -> [Id -> Hyp \cup {None}]]
        /\ decisions' \in [Tab -> Seq(Decision)]
    BY <1>1, <1>2, <2>1
  <2>3. \A s \in Tab, i \in Id : live'[s][i] # None => live'[s][i].state # "REOPENED"
    BY <1>1, <1>3 DEF Shown, AtRest, IInv, TypeOK
  <2>4. served \in Roster /\ ingests \in Nat
    BY DEF IInv, TypeOK
  <2>5. QED
    BY <2>2, <2>3, <2>4 DEF TypeOK
<1>5. LiveIsReplay'
  BY <1>3 DEF IInv, LiveIsReplay, Open
<1>6. /\ Rostered(served)'
      /\ \A s \in Tab : Open(s)' => Rostered(roster[s])'
      /\ \A s \in Tab : ~Open(s)' => live'[s] = NoHyps'
  BY <1>1, <1>3 DEF IInv, Open, Rostered, NoHyps
<1>7. QED
  BY <1>4, <1>5, <1>6 DEF IInv

\* A legal decision recorded is a decision replayed.
LEMMA RecordKeepsIInv ==
  ASSUME IInv, NEW t \in Tab, Open(t), NEW d \in Decision,
         Legal(roster[t], live[t], d), Record(t, d)
  PROVE  IInv'
<1> DEFINE dlog == Append(decisions[t], d)
<1>1. /\ live[t] = Replay(roster[t], decisions[t])
      /\ decisions[t] \in Seq(Decision) /\ Rostered(roster[t])
  BY OpenShows DEF IInv
<1>2. dlog \in Seq(Decision) /\ decisions' = [decisions EXCEPT ![t] = dlog]
  BY <1>1 DEF Record
<1>3. live' = [live EXCEPT ![t] = Replay(roster[t], dlog)]
  <2>1. Replay(roster[t], dlog) = Apply(live[t], d)
    BY <1>1, ReplayOneMore DEF Decided
  <2>2. QED
    BY <2>1 DEF Record
<1>4. roster' = [roster EXCEPT ![t] = roster[t]]
  BY DEF Record, IInv, TypeOK
<1>5. decisions'[t] = dlog
  BY <1>2 DEF IInv, TypeOK
<1>6. /\ savedLog' \in Seq(Decision) /\ savedReview' \in BOOLEAN
      /\ reviewed' \in [Tab -> BOOLEAN] /\ UNCHANGED <<served, ingests>>
  BY <1>2, <1>5 DEF Record, IInv, TypeOK
<1> HIDE DEF dlog
<1>7. QED
  BY <1>1, <1>2, <1>3, <1>4, <1>6, TabKeepsIInv

\* More play: the profile moves by the system's transitions, and no tab notices.
LEMMA IngestKeepsIInv ==
  ASSUME IInv, Ingest
  PROVE  IInv'
<1>1. PICK r \in [Id -> Reads \cup {None}], made \in SUBSET Id,
           back \in SUBSET Id, flag \in BOOLEAN :
        served' = [hyps |-> [i \in Id |-> Ingested(served.hyps[i], r[i], i \in made)],
                   ripe |-> back, flagged |-> flag]
  BY DEF Ingest
<1>2. ASSUME NEW i \in Id
      PROVE  LET g == served'.hyps[i]
             IN  /\ g \in Hyp \cup {None}
                 /\ g # None => /\ AtRest(g) /\ Chained(g)
                               /\ g.state \notin {"CANDIDATE", "ACTIVE"}
  <2> DEFINE prev == served.hyps[i]
             h == ApplyRead(prev, r[i])
             g == [h EXCEPT !.artifact = h.artifact \/ i \in made]
  <2>1. CASE r[i] = None
    <3>1. served'.hyps[i] = served.hyps[i]
      BY <1>1, <2>1 DEF Ingested
    <3>2. QED
      BY <3>1 DEF IInv, Rostered, Roster
  <2>2. CASE r[i] # None
    <3>1. r[i] \in Read /\ prev \in Hyp \cup {None}
      BY <2>2, ReadsAssumption DEF IInv, Rostered, Roster
    <3>2. prev # None => /\ AtRest(prev) /\ Chained(prev)
                         /\ prev.state \notin {"CANDIDATE", "ACTIVE"}
      BY DEF IInv, Rostered
    <3>3. AtRest(h) /\ Chained(h) /\ h.state \notin {"CANDIDATE", "ACTIVE"}
      BY <3>1, <3>2, ApplyReadKeeps
    <3> HIDE DEF h
    <3>4. /\ g \in Hyp /\ g.state = h.state /\ g.history = h.history
      BY <3>3 DEF AtRest, Hyp
    <3>5. AtRest(g) /\ Chained(g) /\ g.state \notin {"CANDIDATE", "ACTIVE"}
      BY <3>3, <3>4 DEF AtRest, Chained
    <3>6. served'.hyps[i] = g
      BY <1>1, <2>2 DEF h, Ingested
    <3>7. QED
      BY <3>4, <3>5, <3>6
  <2>3. QED
    BY <2>1, <2>2
<1>3. served' \in Roster
  <2>1. served'.hyps \in [Id -> Hyp \cup {None}]
    <3>1. served'.hyps = [i \in Id |-> served'.hyps[i]]
      BY <1>1
    <3>2. QED
      BY <1>2, <3>1
  <2>2. /\ served' = [hyps |-> served'.hyps, ripe |-> served'.ripe, flagged |-> served'.flagged]
        /\ served'.ripe \in SUBSET Id /\ served'.flagged \in BOOLEAN
    BY <1>1 DEF IInv, TypeOK, Roster
  <2>3. QED
    BY <2>1, <2>2 DEF Roster
<1>4. Rostered(served')
  BY <1>2, <1>3 DEF Rostered
<1>5. ingests' \in Nat /\ UNCHANGED <<savedLog, savedReview, roster, live, decisions, reviewed>>
  BY DEF Ingest, storage, tabs, IInv, TypeOK
<1>6. TypeOK'
  BY <1>3, <1>5 DEF IInv, TypeOK
<1>7. QED
  BY <1>4, <1>5, <1>6 DEF IInv, LiveIsReplay, Open

-----------------------------------------------------------------------------
(* The theorems *)

LEMMA StepKeepsIInv ==
  ASSUME IInv, [Next]_vars
  PROVE  IInv'
<1>1. CASE Ingest
  BY <1>1, IngestKeepsIInv
<1>2. ASSUME NEW t \in Tab, Load(t)
      PROVE  IInv'
  BY <1>2, TabKeepsIInv DEF Load, storage, IInv, TypeOK
<1>3. ASSUME NEW t \in Tab, UndoLast(t)
      PROVE  IInv'
  <2> DEFINE dlog == Front(decisions[t])
  <2>1. decisions[t] \in Seq(Decision) /\ decisions[t] # <<>> /\ Open(t) /\ Rostered(roster[t])
    BY <1>3 DEF UndoLast, IInv, TypeOK
  <2>2. dlog \in Seq(Decision)
    BY <2>1 DEF Front
  <2>3. decisions' = [decisions EXCEPT ![t] = dlog] /\ decisions'[t] = dlog
    BY <1>3 DEF UndoLast, IInv, TypeOK
  <2>4. live' = [live EXCEPT ![t] = Replay(roster[t], dlog)]
    BY <1>3, <2>3 DEF UndoLast
  <2>5. roster' = [roster EXCEPT ![t] = roster[t]]
    BY <1>3 DEF UndoLast, IInv, TypeOK
  <2> HIDE DEF dlog
  <2>6. /\ savedLog' \in Seq(Decision) /\ savedReview' \in BOOLEAN
        /\ reviewed' \in [Tab -> BOOLEAN] /\ UNCHANGED <<served, ingests>>
    BY <1>3, <2>2, <2>3 DEF UndoLast, IInv, TypeOK
  <2>7. QED
    BY <2>1, <2>2, <2>3, <2>4, <2>5, <2>6, TabKeepsIInv
<1>4. ASSUME NEW t \in Tab, ResetDecisions(t)
      PROVE  IInv'
  <2>1. Open(t) /\ Rostered(roster[t]) /\ <<>> \in Seq(Decision)
    BY <1>4 DEF ResetDecisions, IInv
  <2>2. live' = [live EXCEPT ![t] = Replay(roster[t], <<>>)]
    BY <1>4, ReplayNothing DEF ResetDecisions
  <2>3. roster' = [roster EXCEPT ![t] = roster[t]]
    BY <1>4 DEF ResetDecisions, IInv, TypeOK
  <2>4. /\ decisions' = [decisions EXCEPT ![t] = <<>>]
        /\ reviewed' \in [Tab -> BOOLEAN] /\ UNCHANGED <<served, ingests>>
    BY <1>4 DEF ResetDecisions, IInv, TypeOK
  <2>5. savedLog' \in {<<>>, savedLog} /\ savedReview' \in {FALSE, savedReview}
    BY <1>4 DEF ResetDecisions, storage
  <2>6. savedLog' \in Seq(Decision) /\ savedReview' \in BOOLEAN
    BY <2>1, <2>5 DEF IInv, TypeOK
  <2>7. QED
    BY <2>1, <2>2, <2>3, <2>4, <2>6, TabKeepsIInv
<1>5. ASSUME NEW t \in Tab, NEW d \in Decision, RunAction(t, d)
      PROVE  IInv'
  BY <1>5, RecordKeepsIInv DEF RunAction
<1>6. ASSUME NEW t \in Tab, NEW i \in Id, Open(t), Primary(t, i)
      PROVE  IInv'
  <2> DEFINE d == [action |-> "promote", id |-> i]
  <2>1. d \in Decision /\ d.id = i /\ d.action = "promote"
    BY DEF Decision, Action
  <2>2. Legal(roster[t], live[t], d)
    <3>1. MayPromote(live[t][i], Guide, GateOf(roster[t], i), TRUE)
      BY <1>6, GuideAssumption DEF Primary, MayPromote, Promotion, CanTransition, ByHuman
    <3> HIDE DEF d
    <3>2. QED
      BY <1>6, <2>1, <3>1 DEF Legal, Primary
  <2>3. Record(t, d)
    BY <1>6 DEF Primary
  <2> HIDE DEF d
  <2>4. QED
    BY <1>6, <2>1, <2>2, <2>3, RecordKeepsIInv
<1>7. ASSUME NEW t \in Tab, NEW seen \in BOOLEAN, Review(t, seen)
      PROVE  IInv'
  BY <1>7 DEF Review, IInv, TypeOK, LiveIsReplay, Open, Rostered
<1>8. CASE UNCHANGED vars
  BY <1>8 DEF vars, storage, tabs, IInv, TypeOK, LiveIsReplay, Open, Rostered
<1>9. QED
  BY <1>1, <1>2, <1>3, <1>4, <1>5, <1>6, <1>7, <1>8 DEF Next, PromoteKid, QaPrimaryAction

\* Nothing a tab keeps or shows is out of its type, whatever storage refused.
THEOREM TypeCorrect == Spec => []TypeOK
<1>1. IInv => TypeOK
  BY DEF IInv
<1>2. QED
  BY <1>1, InitIInv, StepKeepsIInv, PTL DEF Spec

\* The log is the record and the store its result: recording, undoing, resetting
\* and reloading all leave on screen what a replay of the tab's log gives.
THEOREM StoreIsReplay == Spec => []LiveIsReplay
<1>1. IInv => LiveIsReplay
  BY DEF IInv
<1>2. QED
  BY <1>1, InitIInv, StepKeepsIInv, PTL DEF Spec

\* A hypothesis parked by the last decision about it shows as parked over every
\* profile the server may send.
THEOREM ParksHold == Spec => []ParkHolds
<1>1. IInv => ParkHolds
  BY OpenShows DEF ParkHolds, ParksOf
<1>2. QED
  BY <1>1, InitIInv, StepKeepsIInv, PTL DEF Spec

\* No replay puts a history on screen that its actors could not have made.
THEOREM HistoriesAreLegal == Spec => []HistoryLegal
<1>1. ASSUME IInv PROVE HistoryLegal
  <2>1. ASSUME NEW t \in Tab, NEW i \in Id, live[t][i] # None
        PROVE  Chained(live[t][i])
    <3>1. Open(t)
      BY <1>1, <2>1 DEF IInv, NoHyps
    <3>2. QED
      BY <1>1, <2>1, <3>1, OpenShows DEF Shown
  <2>2. QED
    BY <2>1 DEF HistoryLegal
<1>2. QED
  BY <1>1, InitIInv, StepKeepsIInv, PTL DEF Spec

\* No log, replayed over any profile, leaves a promotion on screen without the
\* guide, the artifact and the returns.
THEOREM PromotionsStand == Spec => []PromotionStands
<1>1. ASSUME IInv PROVE PromotionStands
  <2>1. ASSUME NEW t \in Tab, NEW i \in Id, live[t][i] # None,
               live[t][i].state \in {"CANDIDATE", "ACTIVE"}
        PROVE  /\ roster[t].hyps[i] # None /\ roster[t].hyps[i].artifact
               /\ i \in roster[t].ripe
               /\ Last(live[t][i].history).actor = Guide
    <3>1. Open(t)
      BY <1>1, <2>1 DEF IInv, NoHyps
    <3>2. QED
      BY <1>1, <2>1, <3>1, OpenShows DEF Shown, Earned
  <2>2. QED
    BY <2>1 DEF PromotionStands
<1>2. QED
  BY <1>1, InitIInv, StepKeepsIInv, PTL DEF Spec

\* While one tab is open at a time, nothing that tab keeps parked is lost from
\* localStorage: it takes a second tab to write over it.
THEOREM OneTabKeepsParks ==
  ASSUME \A s, t \in Tab : s = t
  PROVE  Spec => ParkSurvives
<1>1. ASSUME IInv, [Next]_vars,
             NEW t \in Tab, NEW i \in Id, LastAbout(savedLog, i) = "park",
             LastAbout(decisions'[t], i) = "park"
      PROVE  LastAbout(savedLog', i) = "park"
  <2>1. savedLog' \in {savedLog, decisions'[t]}
    <3>1. CASE Ingest \/ UNCHANGED vars
      BY <3>1 DEF Ingest, vars, storage
    <3>2. ASSUME NEW s \in Tab, Load(s) \/ (\E seen \in BOOLEAN : Review(s, seen))
          PROVE  savedLog' = savedLog
      BY <3>2 DEF Load, Review, storage
    <3>3. ASSUME NEW s \in Tab, UndoLast(s) \/ (\E d \in Decision : Record(s, d))
          PROVE  savedLog' \in {savedLog, decisions'[s]}
      BY <3>3 DEF UndoLast, Record
    <3>4. ASSUME NEW s \in Tab, ResetDecisions(s)
          PROVE  savedLog' \in {savedLog, decisions'[s]}
      BY <1>1, <3>4 DEF ResetDecisions, storage, IInv, TypeOK
    <3>5. \A j \in Id : [action |-> "promote", id |-> j] \in Decision
      BY DEF Decision, Action
    <3>6. QED
      BY <1>1, <3>1, <3>2, <3>3, <3>4, <3>5
         DEF Next, RunAction, PromoteKid, QaPrimaryAction, Primary
  <2>2. QED
    BY <1>1, <2>1
<1>2. ASSUME IInv, [Next]_vars
      PROVE  [\A t \in Tab, i \in Id :
                /\ Open(t)
                /\ LastAbout(savedLog, i) = "park" /\ LastAbout(decisions[t], i) = "park"
                /\ LastAbout(decisions'[t], i) = "park"
                => LastAbout(savedLog', i) = "park"]_vars
  BY <1>1, <1>2
<1>3. QED
  BY <1>2, InitIInv, StepKeepsIInv, PTL DEF Spec, ParkSurvives

\* A reload of a tab whose log is saved, while the profile is the one the tab was
\* loaded with, changes nothing on screen.
ReloadOfTheSame ==
  [][\A t \in Tab :
       Load(t) /\ Open(t) /\ savedLog = decisions[t] /\ served = roster[t]
         => live'[t] = live[t]]_vars

\* "What a human decided, kept so a reload does not undo it" (decisions.ts) holds
\* of every decision as long as no play is ingested in between.
THEOREM ReloadsKeepTheScreen == Spec => ReloadOfTheSame
<1>1. ASSUME IInv, [Next]_vars
      PROVE  [\A t \in Tab :
                Load(t) /\ Open(t) /\ savedLog = decisions[t] /\ served = roster[t]
                  => live'[t] = live[t]]_vars
  <2>1. ASSUME NEW t \in Tab, Load(t), Open(t), savedLog = decisions[t], served = roster[t]
        PROVE  live'[t] = live[t]
    BY <1>1, <2>1 DEF Load, IInv, TypeOK, LiveIsReplay
  <2>2. QED
    BY <2>1
<1>2. QED
  BY <1>1, InitIInv, StepKeepsIInv, PTL DEF Spec, ReloadOfTheSame
=============================================================================
