---------------------------- MODULE Parts_proofs ----------------------------
(***************************************************************************)
(* What holds of the parts that share no state, and of their sum, whatever *)
(* the constants: the interview (SocraticDefense), the studio and          *)
(* the seam to the evidence graph (Studio, EvidenceSink), the consent on   *)
(* file (ConsentRecords), what a session owes (Holdout) and what it holds  *)
(* against a cell (SignalRead).                                            *)
(***************************************************************************)
EXTENDS MCParts, Approvals_proofs

(***************************************************************************)
(* The interview: any facets, any scale of coverage, any cap on turns      *)
(***************************************************************************)

-----------------------------------------------------------------------------
(* The next facet *)

LEMMA NextFacetType ==
  ASSUME NEW c \in [Facet -> 0..Top]
  PROVE  SelectNextFacet(c) \in Facet
<1> USE FacetAssumption, CoverageAssumption
<1>1. PICK low \in {c[f] : f \in Facet} : \A y \in {c[f] : f \in Facet} : low <= y
  <2>1. {c[f] : f \in Facet} \in SUBSET Nat /\ {c[f] : f \in Facet} # {}
    BY DEF Facet
  <2>2. QED
    BY <2>1, LeastOf
<1>2. PICK f \in {g \in Facet : c[g] = low} : \A g \in {g \in Facet : c[g] = low} : f <= g
  <2>1. {g \in Facet : c[g] = low} \in SUBSET Nat /\ {g \in Facet : c[g] = low} # {}
    BY DEF Facet
  <2>2. QED
    BY <2>1, LeastOf
<1>3. \A g \in Facet : c[f] < c[g] \/ (c[f] = c[g] /\ f <= g)
  BY <1>1, <1>2
<1>4. QED
  BY <1>2, <1>3 DEF SelectNextFacet

-----------------------------------------------------------------------------
(* Types *)

LEMMA StepKeepsDefenseTypes ==
  ASSUME DefenseTypeOK, Len(turns) < MaxTurns \/ ~Waiting, [DefenseNext]_defense
  PROVE  DefenseTypeOK'
<1> USE FacetAssumption, CoverageAssumption, TurnsAssumption DEF DefenseTypeOK
<1>1. CASE StartSession
  BY <1>1, NextFacetType DEF StartSession
<1>2. CASE Asked
  BY <1>2 DEF Asked
<1>3. CASE Answered
  BY <1>3 DEF Answered
<1>4. CASE Judged
  <2>1. PICK j \in Judgment :
          LET c == UpdateCoverage(cov, targetFacet, j.coverage)
          IN  /\ cov' = c
              /\ turns' = Append(turns, [facet |-> targetFacet, isFollowUp |-> isFollowUp,
                                         coverage |-> c[targetFacet]])
              /\ IF IsComplete(c, Len(turns) + 1)
                   THEN /\ interview' = "complete"
                        /\ record' = ComputeGaps(c)
                        /\ UNCHANGED <<followups, targetFacet, isFollowUp>>
                   ELSE /\ interview' = "asking"
                        /\ Proceed(j, c)
                        /\ UNCHANGED record
    BY <1>4 DEF Judged
  <2>2. cov' \in [Facet -> 0..Top]
    BY <2>1 DEF UpdateCoverage, Judgment
  <2>3. turns' \in Seq(Turn) /\ Len(turns') <= MaxTurns
    BY <1>4, <2>1, <2>2 DEF Turn, Judged, Waiting
  <2>4. record' \subseteq Facet
    BY <2>1 DEF ComputeGaps
  <2>5. SelectNextFacet(cov') \in Facet
    BY <2>2, NextFacetType
  <2>6. followups' \in [Facet -> 0..2] /\ targetFacet' \in Facet /\ isFollowUp' \in BOOLEAN
    <3>1. CASE IsComplete(cov', Len(turns) + 1)
      BY <2>1, <3>1
    <3>2. CASE ~IsComplete(cov', Len(turns) + 1)
      <4>1. Proceed(j, cov') /\ MaxFollowup[level] \in 0..2
        BY <2>1, <3>2 DEF MaxFollowup
      <4>2. CASE j.thin /\ followups[targetFacet] < MaxFollowup[level]
        BY <4>1, <4>2 DEF Proceed
      <4>3. CASE ~(j.thin /\ followups[targetFacet] < MaxFollowup[level])
        BY <2>5, <4>1, <4>3 DEF Proceed
      <4>4. QED
        BY <4>2, <4>3
    <3>3. QED
      BY <3>1, <3>2
  <2>7. QED
    BY <1>4, <2>1, <2>2, <2>3, <2>4, <2>6 DEF Judged
<1>5. CASE PortThrows
  BY <1>5 DEF PortThrows
<1>6. CASE UNCHANGED defense
  BY <1>6 DEF defense
<1>7. QED
  BY <1>1, <1>2, <1>3, <1>4, <1>5, <1>6 DEF DefenseNext

-----------------------------------------------------------------------------
(* The transcript and the coverage *)

\* The coverage of a facet is the best of its turns; a record was written when
\* the session was complete.
BestOfTurns ==
  /\ \A f \in Facet : \A i \in TurnsOn(f) : turns[i].coverage <= cov[f]
  /\ \A f \in Facet : cov[f] > 0 => \E i \in TurnsOn(f) : turns[i].coverage = cov[f]
  /\ interview = "none" => turns = <<>>
  /\ Waiting => Len(turns) < MaxTurns
  /\ interview = "complete" => record = ComputeGaps(cov) /\ IsComplete(cov, Len(turns))

LEMMA StepKeepsBestOfTurns ==
  ASSUME DefenseTypeOK, BestOfTurns, [DefenseNext]_defense
  PROVE  BestOfTurns'
<1> USE FacetAssumption, CoverageAssumption, TurnsAssumption
<1>1. CASE StartSession
  BY <1>1 DEF StartSession, BestOfTurns, TurnsOn, Waiting, DefenseTypeOK
<1>2. CASE Asked
  BY <1>2 DEF Asked, BestOfTurns, TurnsOn, Waiting
<1>3. CASE Answered
  BY <1>3 DEF Answered, BestOfTurns, TurnsOn, Waiting
<1>4. CASE Judged
  <2>1. PICK j \in Judgment :
          LET c == UpdateCoverage(cov, targetFacet, j.coverage)
          IN  /\ cov' = c
              /\ turns' = Append(turns, [facet |-> targetFacet, isFollowUp |-> isFollowUp,
                                         coverage |-> c[targetFacet]])
              /\ IF IsComplete(c, Len(turns) + 1)
                   THEN interview' = "complete" /\ record' = ComputeGaps(c)
                   ELSE interview' = "asking"
    BY <1>4 DEF Judged
  <2> DEFINE n == Len(turns)
  <2>2. n \in Nat /\ n < MaxTurns /\ Len(turns') = n + 1
    BY <1>4, <2>1 DEF Judged, BestOfTurns, Waiting, DefenseTypeOK
  <2>3. \A i \in 1..n : turns'[i] = turns[i]
    BY <2>1 DEF DefenseTypeOK
  <2>4. turns'[n + 1].facet = targetFacet /\ turns'[n + 1].coverage = cov'[targetFacet]
    BY <2>1 DEF DefenseTypeOK
  <2>5. \A f \in Facet : /\ cov[f] \in 0..Top /\ cov'[f] \in 0..Top
                         /\ cov[f] <= cov'[f]
                         /\ f # targetFacet => cov'[f] = cov[f]
    BY <2>1 DEF UpdateCoverage, Judgment, DefenseTypeOK
  <2>6. \A f \in Facet : \A i \in TurnsOn(f)' : turns'[i].coverage <= cov'[f]
    <3>1. SUFFICES ASSUME NEW f \in Facet, NEW i \in TurnsOn(f)'
                   PROVE  turns'[i].coverage <= cov'[f]
      OBVIOUS
    <3>2. i \in 1..(n + 1) /\ turns'[i].facet = f
      BY <2>2, <3>1 DEF TurnsOn
    <3>3. CASE i = n + 1
      BY <2>4, <2>5, <3>2, <3>3
    <3>4. CASE i \in 1..n
      <4>1. i \in TurnsOn(f) /\ turns'[i].coverage = turns[i].coverage
        BY <2>3, <3>2, <3>4 DEF TurnsOn
      <4>2. turns[i] \in Turn
        BY <3>4 DEF DefenseTypeOK
      <4>3. turns[i].coverage \in Int /\ turns[i].coverage <= cov[f]
        BY <4>1, <4>2 DEF BestOfTurns, Turn
      <4>4. QED
        BY <2>5, <4>1, <4>3
    <3>5. QED
      BY <2>2, <3>2, <3>3, <3>4
  <2>7. \A f \in Facet : cov'[f] > 0 => \E i \in TurnsOn(f)' : turns'[i].coverage = cov'[f]
    <3>1. SUFFICES ASSUME NEW f \in Facet, cov'[f] > 0
                   PROVE  \E i \in TurnsOn(f)' : turns'[i].coverage = cov'[f]
      OBVIOUS
    <3>2. CASE f = targetFacet
      BY <2>2, <2>4, <3>2 DEF TurnsOn
    <3>3. CASE f # targetFacet
      <4>1. PICK i \in TurnsOn(f) : turns[i].coverage = cov[f]
        BY <2>5, <3>1, <3>3 DEF BestOfTurns
      <4>2. i \in TurnsOn(f)' /\ turns'[i].coverage = turns[i].coverage
        BY <2>2, <2>3 DEF TurnsOn
      <4>3. QED
        BY <2>5, <3>3, <4>1, <4>2
    <3>4. QED
      BY <3>2, <3>3
  <2>8. interview' = "asking" => Len(turns') < MaxTurns
    BY <2>1, <2>2 DEF IsComplete
  <2>9. interview' \in {"asking", "complete"}
    BY <2>1
  <2>10. interview' = "complete" => (ComputeGaps(cov))' = record' /\ IsComplete(cov', Len(turns'))
    BY <2>1, <2>2 DEF ComputeGaps
  <2>11. QED
    BY <2>6, <2>7, <2>8, <2>9, <2>10 DEF BestOfTurns, Waiting, IsComplete
<1>5. CASE PortThrows
  BY <1>5 DEF PortThrows, BestOfTurns, TurnsOn, Waiting
<1>6. CASE UNCHANGED defense
  BY <1>6 DEF defense, BestOfTurns, TurnsOn, Waiting, ComputeGaps, IsComplete
<1>7. QED
  BY <1>1, <1>2, <1>3, <1>4, <1>5, <1>6 DEF DefenseNext

LEMMA BestOfTurnsGivesGaps ==
  ASSUME DefenseTypeOK, BestOfTurns
  PROVE  GapsFromTurns
<1> USE FacetAssumption, CoverageAssumption, TurnsAssumption
<1>1. SUFFICES ASSUME interview = "complete"
               PROVE  /\ record = {f \in Facet : \A i \in TurnsOn(f) : turns[i].coverage < Covered}
                      /\ record # {} => Len(turns) = MaxTurns
  BY DEF GapsFromTurns
<1>2. record = {f \in Facet : cov[f] < Covered} /\ IsComplete(cov, Len(turns))
  BY <1>1 DEF BestOfTurns, ComputeGaps
<1>3. \A f \in Facet : cov[f] < Covered <=> \A i \in TurnsOn(f) : turns[i].coverage < Covered
  <2>1. \A f \in Facet : \A i \in TurnsOn(f) : turns[i].coverage \in 0..Top
    <3>1. \A i \in 1..Len(turns) : turns[i] \in Turn
      BY DEF DefenseTypeOK
    <3>2. QED
      BY <3>1 DEF Turn, TurnsOn
  <2>2. \A f \in Facet : cov[f] \in 0..Top
    BY DEF DefenseTypeOK
  <2>3. ASSUME NEW f \in Facet, cov[f] < Covered, NEW i \in TurnsOn(f)
        PROVE  turns[i].coverage < Covered
    <3>1. turns[i].coverage <= cov[f] /\ turns[i].coverage \in Int /\ cov[f] \in Int
      BY <2>1, <2>2 DEF BestOfTurns
    <3>2. QED
      BY <2>3, <3>1
  <2>4. ASSUME NEW f \in Facet, ~(cov[f] < Covered)
        PROVE  \E i \in TurnsOn(f) : ~(turns[i].coverage < Covered)
    <3>1. cov[f] > 0
      BY <2>2, <2>4
    <3>2. PICK i \in TurnsOn(f) : turns[i].coverage = cov[f]
      BY <3>1 DEF BestOfTurns
    <3>3. QED
      BY <2>4, <3>2
  <2>5. QED
    BY <2>3, <2>4
<1>4. record # {} => Len(turns) = MaxTurns
  <2>1. \A f \in record : cov[f] \in Int /\ ~(cov[f] >= Covered)
    BY <1>2 DEF DefenseTypeOK
  <2>2. QED
    BY <1>2, <2>1 DEF IsComplete, DefenseTypeOK
<1>5. QED
  BY <1>2, <1>3, <1>4

-----------------------------------------------------------------------------
(* The probes *)

\* 1 while a follow-up on the facet is on its way into the transcript.
Due(f) == IF Waiting /\ isFollowUp /\ targetFacet = f THEN 1 ELSE 0

\* Every probe of the transcript was counted, and follows a turn on its facet.
ProbesCounted ==
  /\ \A f \in Facet : /\ IsFiniteSet(Probes(f))
                      /\ Cardinality(Probes(f)) + Due(f) <= followups[f]
                      /\ followups[f] <= MaxFollowup[level]
                      /\ \A i \in Probes(f) : i > 1 /\ turns[i - 1].facet = f
  /\ interview = "none" => turns = <<>> /\ followups = [f \in Facet |-> 0] /\ ~isFollowUp
  /\ Waiting /\ isFollowUp => Len(turns) > 0 /\ turns[Len(turns)].facet = targetFacet

LEMMA NoTurnsNoProbes ==
  ASSUME turns = <<>>, NEW f \in Facet
  PROVE  Probes(f) = {} /\ IsFiniteSet(Probes(f)) /\ Cardinality(Probes(f)) = 0
<1>1. Probes(f) = {}
  BY DEF Probes, TurnsOn
<1>2. QED
  BY <1>1, FS_EmptySet

LEMMA StepKeepsProbesCounted ==
  ASSUME DefenseTypeOK, ProbesCounted, [DefenseNext]_defense
  PROVE  ProbesCounted'
<1> USE FacetAssumption, CoverageAssumption, TurnsAssumption
<1>1. CASE StartSession
  <2>1. turns' = <<>> /\ followups' = [f \in Facet |-> 0] /\ ~isFollowUp' /\ level' \in Level
    BY <1>1 DEF StartSession, ProbesCounted
  <2>2. MaxFollowup[level'] \in 0..2 /\ interview' = "asking"
    BY <1>1, <2>1 DEF MaxFollowup, StartSession
  <2>3. \A f \in Facet : Probes(f)' = {} /\ IsFiniteSet(Probes(f)') /\ Cardinality(Probes(f)') = 0
    <3>1. ASSUME NEW f \in Facet PROVE Probes(f)' = {}
      BY <2>1 DEF Probes, TurnsOn
    <3>2. QED
      BY <3>1, FS_EmptySet
  <2>4. QED
    BY <2>1, <2>2, <2>3 DEF ProbesCounted, Due
<1>2. CASE Asked
  BY <1>2 DEF Asked, ProbesCounted, Probes, TurnsOn, Due, Waiting
<1>3. CASE Answered
  BY <1>3 DEF Answered, ProbesCounted, Probes, TurnsOn, Due, Waiting
<1>4. CASE Judged
  <2>1. PICK j \in Judgment : \E c :
              /\ turns' = Append(turns, [facet |-> targetFacet, isFollowUp |-> isFollowUp,
                                         coverage |-> c[targetFacet]])
              /\ \/ interview' = "complete" /\ UNCHANGED <<followups, targetFacet, isFollowUp>>
                 \/ interview' = "asking" /\ Proceed(j, c)
              /\ UNCHANGED level
    BY <1>4 DEF Judged
  <2> DEFINE n == Len(turns)
  <2>2. /\ n \in Nat /\ Len(turns') = n + 1
        /\ \A i \in 1..n : turns'[i] = turns[i]
        /\ turns'[n + 1].facet = targetFacet /\ turns'[n + 1].isFollowUp = isFollowUp
    BY <2>1 DEF DefenseTypeOK
  <2>3. Waiting /\ level' = level
    BY <1>4, <2>1 DEF Judged, Waiting
  <2>4. \A f \in Facet : Probes(f)' = IF isFollowUp /\ targetFacet = f
                                      THEN Probes(f) \cup {n + 1} ELSE Probes(f)
    BY <2>2 DEF Probes, TurnsOn
  <2>5. \A f \in Facet : n + 1 \notin Probes(f)
    BY <2>2 DEF Probes, TurnsOn
  <2>6. \A f \in Facet : /\ IsFiniteSet(Probes(f)')
                         /\ Cardinality(Probes(f)') = Cardinality(Probes(f)) + Due(f)
                         /\ Cardinality(Probes(f)') \in Nat
    <3>1. SUFFICES ASSUME NEW f \in Facet
                   PROVE  /\ IsFiniteSet(Probes(f)')
                          /\ Cardinality(Probes(f)') = Cardinality(Probes(f)) + Due(f)
                          /\ Cardinality(Probes(f)') \in Nat
      OBVIOUS
    <3>2. IsFiniteSet(Probes(f)) /\ Cardinality(Probes(f)) \in Nat
      BY FS_CardinalityType DEF ProbesCounted
    <3>3. CASE isFollowUp /\ targetFacet = f
      <4>1. Probes(f)' = Probes(f) \cup {n + 1} /\ n + 1 \notin Probes(f)
        BY <2>4, <2>5, <3>3
      <4>2. IsFiniteSet(Probes(f)') /\ Cardinality(Probes(f)') = Cardinality(Probes(f)) + 1
        BY <3>2, <4>1, FS_AddElement
      <4>3. QED
        BY <2>3, <3>2, <3>3, <4>2 DEF Due
    <3>4. CASE ~(isFollowUp /\ targetFacet = f)
      <4>1. Probes(f)' = Probes(f)
        BY <2>4, <3>4
      <4>2. QED
        BY <3>2, <3>4, <4>1 DEF Due
    <3>5. QED
      BY <3>3, <3>4
  <2>7. \A f \in Facet : Cardinality(Probes(f)') <= followups[f] /\ followups[f] <= MaxFollowup[level]
    BY <2>6 DEF ProbesCounted
  <2>8. \A f \in Facet : \A i \in Probes(f)' : i > 1 /\ turns'[i - 1].facet = f
    <3>1. SUFFICES ASSUME NEW f \in Facet, NEW i \in Probes(f)'
                   PROVE  i > 1 /\ turns'[i - 1].facet = f
      OBVIOUS
    <3>2. CASE i \in Probes(f)
      <4>1. i > 1 /\ turns[i - 1].facet = f
        BY <3>2 DEF ProbesCounted
      <4>2. i - 1 \in 1..n
        BY <2>2, <3>2, <4>1 DEF Probes, TurnsOn
      <4>3. QED
        BY <2>2, <4>1, <4>2
    <3>3. CASE i \notin Probes(f)
      <4>1. i = n + 1 /\ isFollowUp /\ targetFacet = f
        BY <2>4, <3>1, <3>3
      <4>2. n > 0 /\ turns[n].facet = f
        BY <2>3, <4>1 DEF ProbesCounted
      <4>3. QED
        BY <2>2, <4>1, <4>2
    <3>4. QED
      BY <3>2, <3>3
  <2>9. CASE interview' = "complete" /\ UNCHANGED <<followups, targetFacet, isFollowUp>>
    BY <2>3, <2>6, <2>7, <2>8, <2>9 DEF ProbesCounted, Due, Waiting
  <2>10. CASE interview' = "asking" /\ \E c : Proceed(j, c)
    <3>1. PICK c : Proceed(j, c)
      BY <2>10
    <3>2. \A f \in Facet : followups[f] \in 0..2 /\ MaxFollowup[level] \in 0..2
      BY DEF DefenseTypeOK, MaxFollowup
    <3>3. CASE j.thin /\ followups[targetFacet] < MaxFollowup[level]
      <4>1. followups' = [followups EXCEPT ![targetFacet] = @ + 1] /\ isFollowUp' = TRUE
              /\ targetFacet' = targetFacet
        BY <3>1, <3>3 DEF Proceed
      <4>2. \A f \in Facet : followups'[f] = IF f = targetFacet THEN followups[f] + 1 ELSE followups[f]
        BY <4>1 DEF DefenseTypeOK
      <4>3. \A f \in Facet : /\ Cardinality(Probes(f)') + Due(f)' <= followups'[f]
                             /\ followups'[f] <= MaxFollowup[level']
        BY <2>3, <2>6, <2>7, <3>2, <3>3, <4>1, <4>2 DEF Due
      <4>4. Len(turns') > 0 /\ turns'[Len(turns')].facet = targetFacet'
        BY <2>2, <4>1
      <4>5. QED
        BY <2>6, <2>8, <2>10, <4>3, <4>4 DEF ProbesCounted
    <3>4. CASE ~(j.thin /\ followups[targetFacet] < MaxFollowup[level])
      <4>1. followups' = followups /\ isFollowUp' = FALSE
        BY <3>1, <3>4 DEF Proceed
      <4>2. QED
        BY <2>3, <2>6, <2>7, <2>8, <2>10, <4>1 DEF ProbesCounted, Due
    <3>5. QED
      BY <3>3, <3>4
  <2>11. QED
    BY <2>1, <2>9, <2>10
<1>5. CASE PortThrows
  <2>1. turns' = <<>> /\ interview' = "failed" /\ UNCHANGED <<level, followups>>
    BY <1>5 DEF PortThrows
  <2>2. \A f \in Facet : Probes(f)' = {} /\ IsFiniteSet(Probes(f)') /\ Cardinality(Probes(f)') = 0
    <3>1. ASSUME NEW f \in Facet PROVE Probes(f)' = {}
      BY <2>1 DEF Probes, TurnsOn
    <3>2. QED
      BY <3>1, FS_EmptySet
  <2>3. \A f \in Facet : followups[f] \in 0..2 /\ followups[f] <= MaxFollowup[level]
    BY DEF DefenseTypeOK, ProbesCounted
  <2>4. QED
    BY <2>1, <2>2, <2>3 DEF ProbesCounted, Due, Waiting
<1>6. CASE UNCHANGED defense
  BY <1>6 DEF defense, ProbesCounted, Probes, TurnsOn, Due, Waiting
<1>7. QED
  BY <1>1, <1>2, <1>3, <1>4, <1>5, <1>6 DEF DefenseNext

LEMMA ProbesCountedGivesCap ==
  ASSUME DefenseTypeOK, ProbesCounted
  PROVE  ProbesCapped
<1>1. \A f \in Facet : /\ Cardinality(Probes(f)) \in Nat /\ Due(f) \in Nat
                       /\ followups[f] \in Nat /\ MaxFollowup[level] \in Nat
  BY FS_CardinalityType DEF DefenseTypeOK, ProbesCounted, Due, MaxFollowup
<1>2. QED
  BY <1>1 DEF ProbesCapped, ProbesCounted

-----------------------------------------------------------------------------
(* The interview *)

LEMMA DefenseStarts ==
  ASSUME DefenseInit
  PROVE  DefenseTypeOK /\ BestOfTurns /\ ProbesCounted
<1> USE FacetAssumption, CoverageAssumption, TurnsAssumption
<1>1. DefenseTypeOK
  <2>1. turns = <<>> /\ turns \in Seq(Turn) /\ Len(turns) = 0
    BY DEF DefenseInit
  <2>2. 1 \in Facet /\ cov \in [Facet -> 0..Top] /\ followups \in [Facet -> 0..2]
    BY DEF DefenseInit, Facet
  <2>3. interview = "none" /\ level \in Level /\ isFollowUp \in BOOLEAN /\ record \subseteq Facet
    BY DEF DefenseInit, Level
  <2>4. Len(turns) <= MaxTurns /\ targetFacet \in Facet
    BY <2>1, <2>2 DEF DefenseInit
  <2>5. QED
    BY <2>1, <2>2, <2>3, <2>4 DEF DefenseTypeOK
<1>2. BestOfTurns
  BY DEF DefenseInit, BestOfTurns, TurnsOn, Waiting
<1>3. MaxFollowup[level] \in Nat
  BY <1>1 DEF DefenseTypeOK, MaxFollowup
<1>4. ProbesCounted
  BY <1>3, NoTurnsNoProbes DEF DefenseInit, ProbesCounted, Due, Waiting
<1>5. QED
  BY <1>1, <1>2, <1>4

LEMMA DefenseKept ==
  ASSUME DefenseTypeOK /\ BestOfTurns /\ ProbesCounted, [DefenseNext]_defense
  PROVE  (DefenseTypeOK /\ BestOfTurns /\ ProbesCounted)'
<1>1. Len(turns) < MaxTurns \/ ~Waiting
  BY DEF BestOfTurns
<1>2. QED
  BY <1>1, StepKeepsDefenseTypes, StepKeepsBestOfTurns, StepKeepsProbesCounted

LEMMA DefenseAlways == DefenseSpec => [](DefenseTypeOK /\ BestOfTurns /\ ProbesCounted)
BY DefenseStarts, DefenseKept, PTL DEF DefenseSpec

\* An interview never runs past its turns, nor leaves the facets it knows.
THEOREM DefenseTypeCorrect == DefenseSpec => []DefenseTypeOK
BY DefenseAlways, PTL

\* However the three ports answer, the gaps on record are the facets no turn
\* covered, and there are some only when the turns are used up.
THEOREM RecordTellsTheGaps == DefenseSpec => []GapsFromTurns
BY DefenseAlways, BestOfTurnsGivesGaps, PTL

\* A child is never probed on a facet beyond what its level allows, over the whole
\* session, nor out of the blue.
THEOREM ProbingIsBounded == DefenseSpec => []ProbesCapped
BY DefenseAlways, ProbesCountedGivesCap, PTL

(***************************************************************************)
(* The studio: any projects, seed and journeys                             *)
(***************************************************************************)

-----------------------------------------------------------------------------
(* Prefixes *)

LEMMA PrefixElements ==
  ASSUME NEW S, NEW s \in Seq(S), NEW t \in Seq(S)
  PROVE  IsPrefix(s, t) <=> Len(s) <= Len(t) /\ \A i \in 1..Len(s) : s[i] = t[i]
<1>1. ASSUME Len(s) <= Len(t), \A i \in 1..Len(s) : s[i] = t[i]
      PROVE  SubSeq(s, 1, Len(s)) = SubSeq(t, 1, Len(s))
  BY <1>1
<1>2. ASSUME Len(s) <= Len(t), SubSeq(s, 1, Len(s)) = SubSeq(t, 1, Len(s)), NEW i \in 1..Len(s)
      PROVE  s[i] = t[i]
  <2>1. SubSeq(s, 1, Len(s))[i] = s[i] /\ SubSeq(t, 1, Len(s))[i] = t[i]
    BY <1>2
  <2>2. QED
    BY <1>2, <2>1
<1>3. QED
  BY <1>1, <1>2 DEF IsPrefix

\* A sequence of journeys b holds all that a does.
Covers(b, a) == \A p \in DOMAIN a : p \in DOMAIN b /\ IsPrefix(a[p], b[p])

LEMMA CoversItself ==
  ASSUME NEW a, AreJourneys(a) PROVE Covers(a, a)
BY PrefixElements DEF Covers, AreJourneys

LEMMA CoversOnward ==
  ASSUME NEW a, NEW b, NEW c, AreJourneys(a), AreJourneys(b), AreJourneys(c),
         Covers(b, a), Covers(c, b)
  PROVE  Covers(c, a)
<1>1. SUFFICES ASSUME NEW p \in DOMAIN a PROVE p \in DOMAIN c /\ IsPrefix(a[p], c[p])
  BY DEF Covers
<1>2. /\ p \in DOMAIN b /\ p \in DOMAIN c
      /\ IsPrefix(a[p], b[p]) /\ IsPrefix(b[p], c[p])
  BY <1>1 DEF Covers
<1>3. a[p] \in Seq(WorkEvent) /\ b[p] \in Seq(WorkEvent) /\ c[p] \in Seq(WorkEvent)
  BY <1>1, <1>2 DEF AreJourneys
<1>4. /\ Len(a[p]) <= Len(b[p]) /\ \A i \in 1..Len(a[p]) : a[p][i] = b[p][i]
      /\ Len(b[p]) <= Len(c[p]) /\ \A i \in 1..Len(b[p]) : b[p][i] = c[p][i]
  BY <1>2, <1>3, PrefixElements
<1>5. Len(a[p]) <= Len(c[p]) /\ \A i \in 1..Len(a[p]) : a[p][i] = c[p][i]
  BY <1>3, <1>4
<1>6. QED
  BY <1>2, <1>3, <1>5, PrefixElements

-----------------------------------------------------------------------------
(* How journeys change *)

LEMMA LastIdIsItsPlace ==
  ASSUME NEW js, NEW p \in DOMAIN js, AreJourneys(js), InPlace(js)
  PROVE  /\ js[p] = <<>> => LastId(js, p) = Nothing
         /\ js[p] # <<>> => LastId(js, p) = <<p, Len(js[p]) - 1>>
         /\ LastId(js, p) \in EntryId \cup {Nothing}
<1>1. js[p] \in Seq(WorkEvent) /\ p \in Workpiece
  BY DEF AreJourneys
<1>2. CASE js[p] = <<>>
  BY <1>2 DEF LastId
<1>3. CASE js[p] # <<>>
  <2>1. Len(js[p]) \in 1..Len(js[p]) /\ Len(js[p]) - 1 \in Nat
    BY <1>1, <1>3
  <2>2. LastId(js, p) = <<p, Len(js[p]) - 1>>
    BY <2>1, <1>3 DEF LastId, Last, InPlace
  <2>3. QED
    BY <1>1, <1>3, <2>1, <2>2 DEF EntryId
<1>4. QED
  BY <1>2, <1>3

Logged(js, p, kind, stuck, refs) ==
  [js EXCEPT ![p] = LogEvent(p, js[p], kind, stuck, refs)]

LEMMA LoggedJourneys ==
  ASSUME NEW js, NEW p \in DOMAIN js, AreJourneys(js), InPlace(js),
         NEW kind \in WorkEventKind, NEW stuck \in BOOLEAN, NEW refs \in Seq(EntryId),
         NEW new, new = Logged(js, p, kind, stuck, refs)
  PROVE  /\ AreJourneys(new) /\ InPlace(new) /\ Covers(new, js)
         /\ DOMAIN new = DOMAIN js /\ Len(new[p]) = Len(js[p]) + 1
<1> DEFINE e == [id |-> <<p, Len(js[p])>>, kind |-> kind, stuck |-> stuck, refs |-> refs]
<1>1. PICK some \in SUBSET Workpiece : js \in [some -> Seq(WorkEvent)]
  BY DEF AreJourneys
<1>2. /\ DOMAIN js = some /\ DOMAIN new = some /\ js[p] \in Seq(WorkEvent)
      /\ new[p] = Append(js[p], e)
      /\ \A q \in some : q # p => new[q] = js[q]
      /\ new = [q \in some |-> IF q = p THEN Append(js[p], e) ELSE js[q]]
  BY <1>1 DEF Logged, LogEvent
<1>3. e \in WorkEvent
  BY <1>1, <1>2 DEF WorkEvent, EntryId
<1>4. Append(js[p], e) \in Seq(WorkEvent) /\ Len(Append(js[p], e)) = Len(js[p]) + 1
  BY <1>2, <1>3
<1> HIDE DEF e
<1>5. AreJourneys(new)
  <2>1. new \in [some -> Seq(WorkEvent)]
    BY <1>1, <1>2, <1>4
  <2>2. QED
    BY <2>1 DEF AreJourneys
<1>6. InPlace(new)
  <2>1. SUFFICES ASSUME NEW q \in some, NEW i \in 1..Len(new[q]) PROVE new[q][i].id = <<q, i - 1>>
    BY <1>2 DEF InPlace
  <2>2. CASE q # p
    BY <2>2, <1>2 DEF InPlace
  <2>3. CASE q = p /\ i \in 1..Len(js[p])
    BY <2>3, <1>2, <1>3 DEF InPlace
  <2>4. CASE q = p /\ i = Len(js[p]) + 1
    BY <2>4, <1>2, <1>3 DEF e
  <2>5. QED
    BY <2>2, <2>3, <2>4, <1>2, <1>4
<1>7. Covers(new, js)
  <2>1. SUFFICES ASSUME NEW q \in some PROVE IsPrefix(js[q], new[q])
    BY <1>2 DEF Covers
  <2>2. js[q] \in Seq(WorkEvent) /\ new[q] \in Seq(WorkEvent)
    BY <1>1, <1>2, <1>4
  <2>3. Len(js[q]) <= Len(new[q]) /\ \A i \in 1..Len(js[q]) : js[q][i] = new[q][i]
    BY <1>2, <1>3, <1>4, <2>2
  <2>4. QED
    BY <2>2, <2>3, PrefixElements
<1>8. QED
  BY <1>2, <1>4, <1>5, <1>6, <1>7

LEMMA StartedJourneys ==
  ASSUME NEW js, AreJourneys(js), InPlace(js), NEW p \in Workpiece, p \notin DOMAIN js, NEW new,
         new = [q \in DOMAIN js \cup {p} |-> IF q = p THEN <<>> ELSE js[q]]
  PROVE  /\ AreJourneys(new) /\ InPlace(new) /\ Covers(new, js)
         /\ p \in DOMAIN new /\ new[p] = <<>>
<1>1. PICK some \in SUBSET Workpiece : js \in [some -> Seq(WorkEvent)]
  BY DEF AreJourneys
<1>2. new \in [some \cup {p} -> Seq(WorkEvent)] /\ some \cup {p} \in SUBSET Workpiece
  BY <1>1
<1>3. AreJourneys(new)
  BY <1>2 DEF AreJourneys
<1>4. InPlace(new)
  BY <1>1 DEF InPlace
<1>5. \A q \in DOMAIN js : q \in DOMAIN new /\ new[q] = js[q]
  BY <1>1
<1>6. Covers(new, js)
  BY <1>5, CoversItself DEF Covers
<1>7. QED
  BY <1>3, <1>4, <1>6

-----------------------------------------------------------------------------
(* The studio *)

\* What is saved is behind what is on screen, once the page is ready; and what is
\* being asked about is on screen, last in its project, with little behind it.
StudioInv ==
  /\ StudioTypeOK
  /\ InPlace(journeys)
  /\ saved # Nothing => InPlace(saved) /\ FirstPiece \in DOMAIN saved
  /\ FirstPiece \in DOMAIN journeys
  /\ page # "ready" => openId = FirstPiece /\ journeys = SeedJourneys
  /\ page = "ready" /\ saved # Nothing => Covers(journeys, saved)
  /\ asking # Nothing =>
       page = "ready" /\ asking = LastId(journeys, openId) /\ EndsThin(journeys[openId])

\* What a step owes to what is saved.
SavedKept == saved # Nothing => saved' # Nothing /\ Covers(saved', saved)

LEMMA StudioStarts == StudioInit => StudioInv
BY StudioAssumption DEF StudioInit, StudioInv, StudioTypeOK

\* Whatever is asked after a step is asked about what the step left on screen.
LEMMA AskedOfWhatIsThere ==
  ASSUME StudioInv, AskEffect,
         AreJourneys(journeys'), InPlace(journeys'), openId' \in DOMAIN journeys',
         asking # Nothing /\ LastId(journeys', openId') = LastId(journeys, openId) =>
           journeys'[openId'] = journeys[openId]
  PROVE  /\ asking' \in EntryId \cup {Nothing}
         /\ asking' # Nothing =>
              asking' = LastId(journeys', openId') /\ EndsThin(journeys'[openId'])
<1>1. LastId(journeys', openId') \in EntryId \cup {Nothing}
  BY LastIdIsItsPlace
<1>2. CASE LastId(journeys', openId') = LastId(journeys, openId)
  BY <1>2 DEF AskEffect, StudioInv, StudioTypeOK
<1>3. CASE LastId(journeys', openId') # LastId(journeys, openId)
  BY <1>1, <1>3 DEF AskEffect
<1>4. QED
  BY <1>2, <1>3

\* A change of the journeys that takes nothing from them.
LEMMA ChangeKeeps ==
  ASSUME StudioInv, page = "ready", Rendered,
         AreJourneys(journeys'), InPlace(journeys'), Covers(journeys', journeys),
         openId' \in DOMAIN journeys', pending' \in EntryId \cup {Nothing},
         asking # Nothing /\ LastId(journeys', openId') = LastId(journeys, openId) =>
           journeys'[openId'] = journeys[openId]
  PROVE  StudioInv' /\ SavedKept
<1>1. /\ page' = "ready" /\ AskEffect /\ saved' \in {saved, journeys'}
      /\ FirstPiece \in DOMAIN journeys'
  BY DEF Rendered, PersistEffect, StudioInv, Covers
<1>2. /\ asking' \in EntryId \cup {Nothing}
      /\ asking' # Nothing =>
           asking' = LastId(journeys', openId') /\ EndsThin(journeys'[openId'])
  BY <1>1, AskedOfWhatIsThere
<1>3. journeys' # Nothing
  BY NothingAssumption
<1>4. saved # Nothing => Covers(journeys', saved)
  BY CoversOnward DEF StudioInv, StudioTypeOK
<1>5. SavedKept
  BY <1>1, <1>3, <1>4, CoversItself DEF SavedKept, StudioInv, StudioTypeOK
<1>6. StudioTypeOK'
  BY <1>1, <1>2 DEF StudioInv, StudioTypeOK
<1>7. /\ saved' # Nothing => InPlace(saved') /\ FirstPiece \in DOMAIN saved'
      /\ saved' # Nothing => Covers(journeys', saved')
  BY <1>1, <1>4, CoversItself DEF StudioInv
<1>8. QED
  BY <1>1, <1>2, <1>5, <1>6, <1>7 DEF StudioInv

LEMMA LoggingKeeps ==
  ASSUME StudioInv, NEW kind \in WorkEventKind, NEW stuck \in BOOLEAN, NEW refs \in Seq(EntryId),
         AddEntry(kind, stuck, refs), pending' \in EntryId \cup {Nothing}
  PROVE  StudioInv' /\ SavedKept
<1>1. /\ page = "ready" /\ openId' = openId /\ Rendered
      /\ journeys' = Logged(journeys, openId, kind, stuck, refs)
  BY DEF AddEntry, Logged
<1>2. AreJourneys(journeys) /\ InPlace(journeys) /\ openId \in DOMAIN journeys
  BY DEF StudioInv, StudioTypeOK
<1>3. /\ AreJourneys(journeys') /\ InPlace(journeys') /\ Covers(journeys', journeys)
      /\ DOMAIN journeys' = DOMAIN journeys
      /\ Len(journeys'[openId]) = Len(journeys[openId]) + 1
  BY <1>1, <1>2, LoggedJourneys
<1>4. LastId(journeys', openId') # LastId(journeys, openId)
  <2>1. journeys[openId] \in Seq(WorkEvent) /\ journeys'[openId] \in Seq(WorkEvent)
    BY <1>2, <1>3 DEF AreJourneys
  <2>2. journeys'[openId] # <<>> /\ Len(journeys[openId]) \in Nat
    BY <2>1, <1>3
  <2>3. LastId(journeys', openId') = <<openId, Len(journeys[openId])>>
    <3>1. LastId(journeys', openId') = <<openId', Len(journeys'[openId']) - 1>>
      BY <1>1, <1>2, <1>3, <2>2, LastIdIsItsPlace
    <3>2. Len(journeys'[openId']) - 1 = Len(journeys[openId])
      BY <1>1, <1>3, <2>2
    <3>3. QED
      BY <3>1, <3>2, <1>1
  <2>4. <<openId, Len(journeys[openId])>> \in EntryId
    BY <2>2, <1>2 DEF EntryId, AreJourneys
  <2>5. LastId(journeys, openId) \in {Nothing, <<openId, Len(journeys[openId]) - 1>>}
    BY <1>2, LastIdIsItsPlace
  <2>6. QED
    BY <2>2, <2>3, <2>4, <2>5, NothingAssumption
<1>5. QED
  BY <1>1, <1>2, <1>3, <1>4, ChangeKeeps

LEMMA HydrationKeeps ==
  ASSUME StudioInv, Hydrate PROVE StudioInv' /\ SavedKept
<1>1. /\ openId = FirstPiece /\ openId' = FirstPiece /\ page' = "ready" /\ asking = Nothing
      /\ journeys' = IF saved # Nothing THEN saved ELSE journeys
      /\ saved' \in {saved, journeys'} /\ AskEffect /\ pending' = pending
  BY DEF Hydrate, StudioInv, PersistEffect
<1>2. /\ AreJourneys(journeys') /\ InPlace(journeys') /\ openId' \in DOMAIN journeys'
      /\ saved # Nothing => saved' = saved /\ journeys' = saved
      /\ saved' # Nothing => saved' = journeys'
  BY <1>1 DEF StudioInv, StudioTypeOK
<1>3. /\ asking' \in EntryId \cup {Nothing}
      /\ asking' # Nothing =>
           asking' = LastId(journeys', openId') /\ EndsThin(journeys'[openId'])
  BY <1>1, <1>2, AskedOfWhatIsThere
<1>4. Covers(journeys', journeys')
  BY <1>2, CoversItself
<1>5. StudioTypeOK'
  BY <1>1, <1>2, <1>3 DEF StudioInv, StudioTypeOK
<1>6. SavedKept
  BY <1>2, <1>4 DEF SavedKept
<1>7. QED
  BY <1>1, <1>2, <1>3, <1>4, <1>5, <1>6 DEF StudioInv

\* What leaves the journeys and the projects open alone.
LEMMA RestKeeps ==
  ASSUME StudioInv, UNCHANGED <<journeys, openId, saved>>,
         page' = page \/ (page # "ready" /\ page' = "mounting"),
         asking' \in {asking, Nothing}, pending' \in {pending, asking, Nothing}
  PROVE  StudioInv' /\ SavedKept
<1>1. SavedKept
  BY CoversItself DEF SavedKept, StudioInv, StudioTypeOK
<1>2. StudioTypeOK'
  BY DEF StudioInv, StudioTypeOK
<1>3. asking' # Nothing => asking' = asking /\ page' = page
  BY DEF StudioInv
<1>4. QED
  BY <1>1, <1>2, <1>3 DEF StudioInv

LEMMA StudioStep ==
  ASSUME StudioInv, [StudioNext]_studio PROVE StudioInv' /\ SavedKept
<1>1. CASE Mount
  BY <1>1, RestKeeps DEF Mount
<1>2. CASE Hydrate
  BY <1>2, HydrationKeeps
<1>3. CASE Close
  <2>1. SavedKept
    BY <1>3, CoversItself DEF Close, SavedKept, StudioInv, StudioTypeOK
  <2>2. StudioInv'
    BY <1>3, StudioAssumption DEF Close, StudioInv, StudioTypeOK
  <2>3. QED
    BY <2>1, <2>2
<1>4. CASE QuestionArrives
  BY <1>4, RestKeeps DEF QuestionArrives
<1>5. CASE NotNow
  BY <1>5, RestKeeps DEF NotNow
<1>6. CASE SendAnswer
  <2>1. /\ "reflection" \in WorkEventKind /\ FALSE \in BOOLEAN
        /\ pending \in EntryId /\ pending' = Nothing
        /\ AddEntry("reflection", FALSE, <<pending>>)
    BY <1>6 DEF SendAnswer, WorkEventKind, StudioInv, StudioTypeOK
  <2>2. <<pending>> \in Seq(EntryId)
    BY <2>1
  <2>3. QED
    BY <2>1, <2>2, LoggingKeeps
<1>7. ASSUME NEW kind \in Composed, NEW stuck \in BOOLEAN, Submit(kind, stuck)
      PROVE  StudioInv' /\ SavedKept
  <2>1. /\ kind \in WorkEventKind /\ AddEntry(kind, stuck, <<>>)
        /\ pending' \in EntryId \cup {Nothing} /\ <<>> \in Seq(EntryId)
    BY <1>7, StudioAssumption DEF Submit, StudioInv, StudioTypeOK
  <2>2. QED
    BY <2>1, LoggingKeeps
<1>8. ASSUME NEW p \in Workpiece, OpenPiece(p) PROVE StudioInv' /\ SavedKept
  <2>1. /\ page = "ready" /\ p \in DOMAIN journeys /\ openId' = p /\ Rendered
        /\ journeys' = journeys /\ pending' \in EntryId \cup {Nothing}
        /\ AreJourneys(journeys) /\ InPlace(journeys) /\ openId \in DOMAIN journeys
    BY <1>8 DEF OpenPiece, StudioInv, StudioTypeOK
  <2>2. Covers(journeys, journeys)
    BY <2>1, CoversItself
  <2>3. ASSUME asking # Nothing, LastId(journeys, p) = LastId(journeys, openId) PROVE p = openId
    <3>1. LastId(journeys, openId) # Nothing
      BY <2>3 DEF StudioInv
    <3>2. /\ LastId(journeys, openId) = <<openId, Len(journeys[openId]) - 1>>
          /\ LastId(journeys, p) = <<p, Len(journeys[p]) - 1>>
      BY <2>1, <2>3, <3>1, LastIdIsItsPlace
    <3>3. QED
      BY <2>3, <3>2
  <2>4. QED
    BY <2>1, <2>2, <2>3, ChangeKeeps
<1>9. ASSUME NEW p \in Workpiece, StartSelfProject(p) PROVE StudioInv' /\ SavedKept
  <2>1. /\ page = "ready" /\ p \notin DOMAIN journeys /\ openId' = p /\ Rendered
        /\ journeys' = [q \in DOMAIN journeys \cup {p} |-> IF q = p THEN <<>> ELSE journeys[q]]
        /\ pending' \in EntryId \cup {Nothing}
        /\ AreJourneys(journeys) /\ InPlace(journeys)
    BY <1>9 DEF StartSelfProject, StudioInv, StudioTypeOK
  <2>2. /\ AreJourneys(journeys') /\ InPlace(journeys') /\ Covers(journeys', journeys)
        /\ p \in DOMAIN journeys' /\ journeys'[p] = <<>>
    BY <2>1, StartedJourneys
  <2>3. LastId(journeys', openId') = Nothing
    BY <2>1, <2>2 DEF LastId
  <2>4. asking # Nothing => LastId(journeys, openId) # Nothing
    BY DEF StudioInv
  <2>5. QED
    BY <2>1, <2>2, <2>3, <2>4, ChangeKeeps
<1>10. CASE UNCHANGED studio
  BY <1>10, RestKeeps DEF studio
<1>11. QED
  BY <1>1, <1>2, <1>3, <1>4, <1>5, <1>6, <1>7, <1>8, <1>9, <1>10 DEF StudioNext

LEMMA StudioAlways == StudioSpec => []StudioInv
BY StudioStarts, StudioStep, PTL DEF StudioSpec

\* The type invariant, for any projects and any seed.
THEOREM StudioTypeCorrect == StudioSpec => []StudioTypeOK
<1>1. StudioInv => StudioTypeOK
  BY DEF StudioInv
<1>2. QED
  BY <1>1, StudioAlways, PTL

\* A saved journey only grows and no saved project is dropped, however often the
\* page goes and whichever writes storage refuses.
THEOREM SavedStands == StudioSpec => SavedJourneysStand
<1>1. SavedKept =>
        (saved # Nothing =>
           /\ saved' # Nothing
           /\ \A p \in DOMAIN saved : p \in DOMAIN saved' /\ IsPrefix(saved[p], saved'[p]))
  BY DEF SavedKept, Covers
<1>2. QED
  BY <1>1, StudioAlways, StudioStep, PTL DEF StudioSpec, SavedJourneysStand

\* A question comes up over the work it is about and nothing else, whatever the
\* child did while it was fetched.
THEOREM QuestionsFindTheirWork == StudioSpec => QuestionsComeHome
<1>1. ASSUME StudioInv, [StudioNext]_studio
      PROVE  pending' \notin {pending, Nothing} =>
               pending' = LastId(journeys', openId') /\ EndsThin(journeys'[openId'])
  <2>1. CASE QuestionArrives
    BY <1>1, <2>1 DEF QuestionArrives, StudioInv
  <2>2. CASE ~QuestionArrives
    BY <1>1, <2>2 DEF StudioNext, studio, Mount, Hydrate, Close, NotNow, SendAnswer, Submit,
                      OpenPiece, StartSelfProject
  <2>3. QED
    BY <2>1, <2>2
<1>2. QED
  BY <1>1, StudioAlways, PTL DEF StudioSpec, QuestionsComeHome

-----------------------------------------------------------------------------
(* The consent on file *)

LEMMA ConsentTypeStarts == ConsentInit => ConsentTypeOK
BY ConsentAssumption DEF ConsentInit, ConsentTypeOK

LEMMA StepKeepsConsentTypes ==
  ASSUME ConsentTypeOK, [ConsentNext]_consents
  PROVE  ConsentTypeOK'
<1>1. ASSUME Midnight PROVE ConsentTypeOK'
  BY <1>1, ConsentAssumption DEF Midnight, ConsentTypeOK
<1>2. ASSUME NEW k \in Kid, NEW d \in Date, WithdrawConsent(k, d) PROVE ConsentTypeOK'
  <2>1. \A r \in ConsentRecord : [r EXCEPT !.withdrawn = d] \in ConsentRecord
    BY DEF ConsentRecord
  <2>2. /\ filed \in Seq(ConsentRecord) /\ now' \in 1..LastDate
        /\ filed' = [i \in DOMAIN filed |->
                       IF filed[i].kid = k /\ filed[i].withdrawn = Never
                         THEN [filed[i] EXCEPT !.withdrawn = d] ELSE filed[i]]
    BY <1>2 DEF WithdrawConsent, ConsentTypeOK
  <2>3. \A i \in 1..Len(filed) :
          (IF filed[i].kid = k /\ filed[i].withdrawn = Never
             THEN [filed[i] EXCEPT !.withdrawn = d] ELSE filed[i]) \in ConsentRecord
    BY <2>1, <2>2
  <2>4. DOMAIN filed = 1..Len(filed) /\ Len(filed) \in Nat
    BY <2>2
  <2>5. filed' \in [1..Len(filed) -> ConsentRecord]
    BY <2>2, <2>3, <2>4, Zenon
  <2>6. filed' \in Seq(ConsentRecord)
    BY <2>4, <2>5
  <2>7. QED
    BY <2>2, <2>6 DEF ConsentTypeOK
<1>3. ASSUME NEW k \in Kid, NEW d \in Date, NEW ps \in Forms, NEW e \in Date \cup {Never},
             File(k, ps, d, e)
      PROVE  ConsentTypeOK'
  <2>1. [kid |-> k, purposes |-> ps, granted |-> d, expires |-> e, withdrawn |-> Never]
          \in ConsentRecord
    BY ConsentAssumption DEF ConsentRecord
  <2>2. QED
    BY <2>1, <1>3 DEF File, ConsentTypeOK
<1>4. CASE UNCHANGED consents
  BY <1>4 DEF consents, ConsentTypeOK
<1>5. QED
  BY <1>1, <1>2, <1>3, <1>4 DEF ConsentNext

LEMMA ConsentAlwaysTyped == ConsentSpec => []ConsentTypeOK
BY ConsentTypeStarts, StepKeepsConsentTypes, PTL DEF ConsentSpec

\* The answer is "withdrawn" for one purpose exactly when it is for every other.
LEMMA WithdrawnForAll ==
  ASSUME NEW k \in Kid, NEW p \in Purpose
  PROVE  /\ DecideConsent(k, p) = "withdrawn" <=> IsWithdrawn(k, p)
         /\ DecideConsent(k, p)' = "withdrawn" <=> IsWithdrawn(k, p)'
<1>1. DecideConsent(k, p) = "withdrawn" <=> IsWithdrawn(k, p)
  BY DEF DecideConsent, IsWithdrawn
<1>2. DecideConsent(k, p)' = "withdrawn" <=> IsWithdrawn(k, p)'
  BY DEF DecideConsent, IsWithdrawn
<1>3. QED
  BY <1>1, <1>2

\* What a record says of its withdrawal stays, and its day does not come again.
LEMMA WithdrawalStays ==
  ASSUME ConsentTypeOK, [ConsentNext]_consents, NEW k \in Kid, NEW p \in Purpose,
         IsWithdrawn(k, p)
  PROVE  IsWithdrawn(k, p)'
<1>0. PICK i \in DOMAIN filed :
        /\ filed[i].kid = k /\ filed[i].withdrawn # Never
        /\ DayOf(filed[i].withdrawn) <= now
  BY DEF IsWithdrawn, Of
<1>1. /\ DayOf(filed[i].withdrawn) \in Int /\ now \in Int
      /\ filed[i] \in ConsentRecord /\ filed \in Seq(ConsentRecord)
  <2>1. /\ filed \in Seq(ConsentRecord) /\ filed[i] \in ConsentRecord /\ now \in Int
    BY <1>0 DEF ConsentTypeOK
  <2>2. filed[i].withdrawn \in Date
    BY <1>0, <2>1 DEF ConsentRecord
  <2>3. DayOf(filed[i].withdrawn) \in Int
    BY <2>2, ConsentAssumption DEF DayOf, Date
  <2>4. QED
    BY <2>1, <2>3
<1> DEFINE Standing == /\ i \in DOMAIN filed' /\ filed'[i].kid = k
                       /\ filed'[i].withdrawn = filed[i].withdrawn
                       /\ now <= now' /\ now' \in Int
<1>2. Standing
  <2>1. CASE Midnight
    BY <2>1, <1>0, <1>1 DEF Midnight
  <2>2. ASSUME NEW l \in Kid, NEW d \in Date, WithdrawConsent(l, d) PROVE Standing
    BY <2>2, <1>0, <1>1 DEF WithdrawConsent
  <2>3. ASSUME NEW l \in Kid, NEW d \in Date, NEW ps \in Forms, NEW e \in Date \cup {Never},
               File(l, ps, d, e)
        PROVE  Standing
    BY <2>3, <1>0, <1>1 DEF File
  <2>4. CASE UNCHANGED consents
    BY <2>4, <1>0, <1>1 DEF consents
  <2>5. QED
    <3> HIDE DEF Standing
    <3> QED  BY <2>1, <2>2, <2>3, <2>4 DEF ConsentNext
<1>3. DayOf(filed'[i].withdrawn) <= now'
  BY <1>0, <1>1, <1>2
<1>4. QED
  BY <1>0, <1>2, <1>3 DEF IsWithdrawn, Of, DayOf

\* A withdrawal denies every purpose and is never taken back, whatever is filed,
\* withdrawn or past after it, for any number of children and records.
THEOREM WithdrawalHolds == ConsentSpec => WithdrawalIsAbsolute
<1>1. ASSUME ConsentTypeOK, [ConsentNext]_consents
      PROVE  \A k \in Kid, p, q \in Purpose :
               DecideConsent(k, p) = "withdrawn" =>
                 DecideConsent(k, q) = "withdrawn" /\ DecideConsent(k, q)' = "withdrawn"
  <2>1. SUFFICES ASSUME NEW k \in Kid, NEW p \in Purpose, NEW q \in Purpose,
                        DecideConsent(k, p) = "withdrawn"
                 PROVE  DecideConsent(k, q) = "withdrawn" /\ DecideConsent(k, q)' = "withdrawn"
    OBVIOUS
  <2>2. IsWithdrawn(k, q)
    BY <2>1, WithdrawnForAll DEF IsWithdrawn
  <2>3. IsWithdrawn(k, q)'
    BY <1>1, <2>2, WithdrawalStays
  <2>4. QED
    BY <2>2, <2>3, WithdrawnForAll
<1>2. QED
  BY <1>1, ConsentAlwaysTyped, PTL DEF ConsentSpec, WithdrawalIsAbsolute

LEMMA FiledIs ==
  ASSUME ConsentTypeOK, NEW i \in DOMAIN filed
  PROVE  i \in Nat /\ filed[i] \in ConsentRecord /\ filed[i].granted \in Date
<1>1. filed \in Seq(ConsentRecord) /\ DOMAIN filed = 1..Len(filed) /\ Len(filed) \in Nat
  BY DEF ConsentTypeOK
<1>2. i \in Nat /\ filed[i] \in ConsentRecord
  BY <1>1
<1>3. QED
  BY <1>2 DEF ConsentRecord

\* Some places, none of them outside the file: one of them is the newest.
LEMMA NewestIs ==
  ASSUME ConsentTypeOK, NEW places \in SUBSET DOMAIN filed, places # {}
  PROVE  /\ Newest(places) \in places
         /\ \A j \in places : DayOf(filed[Newest(places)].granted) >= DayOf(filed[j].granted)
<1> DEFINE day(i) == DayOf(filed[i].granted)
           days == {day(i) : i \in places}
<1>1. /\ LastDate \in Nat /\ places \in SUBSET Nat
      /\ \A i \in places : day(i) \in 0..LastDate
  <2>1. ASSUME NEW i \in places PROVE i \in Nat /\ filed[i].granted \in Date
    BY FiledIs
  <2>2. QED
    BY <2>1, ConsentAssumption DEF DayOf, Date
<1> HIDE DEF day
<1>2. PICK d \in days : \A e \in days : e <= d
  <2>1. days \in SUBSET (0..LastDate) /\ days # {}
    BY <1>1
  <2> HIDE DEF days
  <2>2. QED
    BY <1>1, <2>1, GreatestOf
<1> DEFINE best == {i \in places : day(i) = d}
<1>3. PICK i \in best : \A j \in best : i <= j
  <2>1. best \in SUBSET Nat /\ best # {}
    BY <1>1, <1>2
  <2> HIDE DEF best
  <2>2. QED
    BY <2>1, LeastOf
<1>4. ASSUME NEW j \in places PROVE day(i) >= day(j) /\ (j < i => day(i) > day(j))
  <2>1. day(i) \in Int /\ day(j) \in Int /\ i \in Int /\ j \in Int /\ day(i) = d
    BY <1>1, <1>3
  <2>2. day(j) <= d
    BY <1>2
  <2>3. day(j) = d => i <= j
    BY <1>3
  <2>4. QED
    BY <2>1, <2>2, <2>3
<1> DEFINE Best(n) == \A j \in places : /\ day(n) >= day(j)
                                        /\ j < n => day(n) > day(j)
<1>5. Newest(places) = CHOOSE n \in places : Best(n)
  BY DEF Newest, day
<1>6. i \in places /\ Best(i)
  BY <1>3, <1>4
<1>7. Newest(places) \in places /\ Best(Newest(places))
  <2> HIDE DEF Best
  <2>1. QED
    BY <1>5, <1>6
<1>8. QED
  BY <1>7 DEF day

\* The grant of record i can be read and wants no review yet.
InDate(i) == filed[i].granted # Unreadable /\ now - filed[i].granted <= ReviewDays

\* What the decision comes to: no withdrawal, and some record of the child that is
\* for the purpose, has not run out and wants no review.
AllowedIs ==
  \A k \in Kid, p \in Purpose :
    DecideConsent(k, p) = "allowed" <=> ~IsWithdrawn(k, p) /\ \E i \in Live(k, p) : InDate(i)

LEMMA AllowedAlways == ConsentTypeOK => AllowedIs
<1>1. SUFFICES ASSUME ConsentTypeOK, NEW k \in Kid, NEW p \in Purpose
               PROVE  DecideConsent(k, p) = "allowed"
                        <=> ~IsWithdrawn(k, p) /\ \E i \in Live(k, p) : InDate(i)
  BY DEF AllowedIs
<1>2. /\ Live(k, p) \in SUBSET DOMAIN filed /\ Live(k, p) \subseteq ForPurpose(k, p)
      /\ ForPurpose(k, p) \subseteq Of(k)
  BY DEF Live, ForPurpose, Of
<1> DEFINE n == Newest(Live(k, p))
<1>3. DecideConsent(k, p) = "allowed"
        <=> ~IsWithdrawn(k, p) /\ Live(k, p) # {} /\ filed[n].granted # Unreadable
              /\ ~(now - filed[n].granted > ReviewDays)
  BY <1>2 DEF DecideConsent
<1>4. CASE Live(k, p) = {}
  BY <1>3, <1>4
<1>5. CASE Live(k, p) # {}
  <2>1. /\ n \in Live(k, p)
        /\ \A i \in Live(k, p) : DayOf(filed[n].granted) >= DayOf(filed[i].granted)
    BY <1>1, <1>2, <1>5, NewestIs
  <2> HIDE DEF n
  <2>2. now \in Int /\ ReviewDays \in Int /\ \A i \in Live(k, p) : filed[i].granted \in Date
    BY <1>1, <1>2, FiledIs, ConsentAssumption DEF ConsentTypeOK
  <2>3. \A i \in Live(k, p) : filed[i].granted # Unreadable =>
          filed[i].granted \in Int /\ filed[i].granted >= 1
            /\ DayOf(filed[i].granted) = filed[i].granted
    BY <2>2, ConsentAssumption DEF Date, DayOf
  <2>4. ASSUME NEW i \in Live(k, p), InDate(i)
        PROVE  filed[n].granted # Unreadable /\ ~(now - filed[n].granted > ReviewDays)
    <3>1. /\ filed[i].granted \in Int /\ filed[i].granted >= 1
          /\ DayOf(filed[n].granted) >= filed[i].granted
      BY <2>1, <2>3, <2>4 DEF InDate
    <3>2. filed[n].granted # Unreadable
      BY <3>1 DEF DayOf
    <3>3. filed[n].granted \in Int /\ filed[n].granted >= filed[i].granted
      BY <2>1, <2>3, <3>1, <3>2
    <3>4. QED
      BY <2>2, <2>4, <3>1, <3>2, <3>3 DEF InDate
  <2>5. filed[n].granted # Unreadable /\ ~(now - filed[n].granted > ReviewDays) => InDate(n)
    BY <2>1, <2>2, <2>3 DEF InDate
  <2>6. QED
    BY <1>3, <1>5, <2>1, <2>4, <2>5
<1>6. QED
  BY <1>4, <1>5

\* Nothing but a record for the child and the purpose turns a "no" into a "yes", in
\* whatever file and on whatever day.
THEOREM GrantsAllow == ConsentSpec => OnlyAGrantAllows
<1>1. ASSUME ConsentTypeOK, ConsentTypeOK', AllowedIs, AllowedIs', [ConsentNext]_consents,
             NEW k \in Kid, NEW p \in Purpose, DecideConsent(k, p)' = "allowed"
      PROVE  DecideConsent(k, p) = "allowed" \/ FilesFor(k, p)
  <2>0. /\ filed \in Seq(ConsentRecord) /\ now \in Int /\ ReviewDays \in Nat
    BY <1>1, ConsentAssumption DEF ConsentTypeOK
  <2>1. ~IsWithdrawn(k, p)' /\ \E i \in Live(k, p)' : InDate(i)'
    BY <1>1 DEF AllowedIs
  <2>2. ~FilesFor(k, p) => ~IsWithdrawn(k, p)
    BY <1>1, <2>1, WithdrawalStays
  <2>3. PICK i : i \in Live(k, p)' /\ InDate(i)'
    BY <2>1
  <2>4. i \in DOMAIN filed' /\ filed'[i].kid = k /\ p \in filed'[i].purposes
    BY <2>3 DEF Live, ForPurpose, Of
  <2> DEFINE Same == /\ i \in DOMAIN filed
                     /\ filed[i].kid = filed'[i].kid /\ filed[i].purposes = filed'[i].purposes
                     /\ filed[i].granted = filed'[i].granted
                     /\ filed[i].expires = filed'[i].expires
                     /\ now <= now' /\ now' \in Int
  <2>5. Same \/ FilesFor(k, p)
    <3>1. ASSUME Midnight PROVE Same
      BY <2>0, <2>4, <3>1 DEF Midnight
    <3>2. ASSUME NEW l \in Kid, NEW d \in Date, WithdrawConsent(l, d) PROVE Same
      BY <2>0, <2>4, <3>2 DEF WithdrawConsent, ConsentRecord
    <3>3. ASSUME NEW l \in Kid, NEW d \in Date, NEW ps \in Forms, NEW e \in Date \cup {Never},
                 File(l, ps, d, e)
          PROVE  Same \/ FilesFor(k, p)
      <4> DEFINE r == [kid |-> l, purposes |-> ps, granted |-> d, expires |-> e,
                       withdrawn |-> Never]
      <4>1. filed' = Append(filed, r) /\ now' = now
        BY <3>3 DEF File
      <4> HIDE DEF r
      <4>2. /\ DOMAIN filed' = 1..(Len(filed) + 1) /\ DOMAIN filed = 1..Len(filed)
            /\ Len(filed') = Len(filed) + 1 /\ Len(filed) \in Nat
            /\ \A j \in 1..Len(filed) : filed'[j] = filed[j]
        BY <2>0, <4>1
      <4>3. CASE i \in 1..Len(filed)
        BY <2>0, <4>1, <4>2, <4>3
      <4>4. CASE i = Len(filed')
        BY <2>4, <4>2, <4>4 DEF FilesFor
      <4>5. QED
        BY <2>4, <4>2, <4>3, <4>4
    <3>4. ASSUME UNCHANGED consents PROVE Same
      BY <2>0, <2>4, <3>4 DEF consents
    <3>5. QED
      <4> HIDE DEF Same
      <4>1. QED
        BY <1>1, <3>1, <3>2, <3>3, <3>4 DEF ConsentNext
  <2>6. ASSUME Same PROVE i \in Live(k, p) /\ InDate(i)
    <3>1. filed[i] \in ConsentRecord
      BY <2>0, <2>6
    <3>2. i \in Live(k, p)
      <4>1. filed[i].expires # Never /\ filed[i].expires # Unreadable => filed[i].expires \in Int
        BY <3>1 DEF ConsentRecord, Date
      <4>2. QED
        BY <2>0, <2>3, <2>4, <2>6, <4>1 DEF Live, ForPurpose, Of
    <3>3. InDate(i)
      <4>1. filed[i].granted # Unreadable => filed[i].granted \in Int
        BY <3>1 DEF ConsentRecord, Date
      <4>2. QED
        BY <2>0, <2>3, <2>6, <4>1 DEF InDate
    <3>4. QED
      BY <3>2, <3>3
  <2>7. QED
    BY <1>1, <2>2, <2>5, <2>6 DEF AllowedIs
<1>2. ASSUME ConsentTypeOK, ConsentTypeOK', AllowedIs, AllowedIs', [ConsentNext]_consents
      PROVE  [\A k \in Kid, p \in Purpose :
                DecideConsent(k, p)' = "allowed" =>
                  DecideConsent(k, p) = "allowed" \/ FilesFor(k, p)]_consents
  BY <1>1, <1>2
<1>3. ConsentSpec => [](ConsentTypeOK /\ AllowedIs)
  BY ConsentAlwaysTyped, AllowedAlways, PTL
<1>4. QED
  BY <1>2, <1>3, PTL DEF ConsentSpec, OnlyAGrantAllows

(***************************************************************************)
(* What a session owes: any domains, tablets, spacing and number of days   *)
(***************************************************************************)

LEMMA HoldoutTypeStarts == HoldoutInit => HoldoutTypeOK
BY HoldoutAssumption DEF HoldoutInit, HoldoutTypeOK, Days

LEMMA StepKeepsHoldoutTypes ==
  ASSUME HoldoutTypeOK, [HoldoutNext]_holdout
  PROVE  HoldoutTypeOK'
<1> USE DEF HoldoutTypeOK
<1>1. CASE NextDay
  BY <1>1, HoldoutAssumption DEF NextDay, Days
<1>2. ASSUME NEW t \in Tablet, ReachesProfile(t) PROVE HoldoutTypeOK'
  BY <1>2 DEF ReachesProfile
<1>3. ASSUME NEW t \in Tablet, NEW d \in Domain, Show(t, d) PROVE HoldoutTypeOK'
  BY <1>3 DEF Show
<1>4. CASE UNCHANGED holdout
  BY <1>4 DEF holdout
<1>5. QED
  BY <1>1, <1>2, <1>3, <1>4 DEF HoldoutNext

\* One day of the count: it is taken when it is far enough from those taken so far.
Takes(days, t, S) ==
  IF t \in days /\ \A u \in S : t - u >= Spacing THEN S \cup {t} ELSE S

IsCounted(days, C) ==
  C = [t \in 0..LastDay |-> IF t = 0 THEN {} ELSE Takes(days, t, C[t - 1])]

LEMMA CountedExists ==
  ASSUME NEW days
  PROVE  \E C \in [0..LastDay -> SUBSET Days] : IsCounted(days, C)
<1> DEFINE V == SUBSET Days
           step == [t \in 1..LastDay |-> [S \in V |-> Takes(days, t, S)]]
<1>1. {} \in V /\ step \in [1..LastDay -> [V -> V]] /\ LastDay \in Nat
  BY HoldoutAssumption DEF Takes, Days
<1>2. \A t \in 1..LastDay, S \in V : step[t][S] = Takes(days, t, S)
  OBVIOUS
<1> HIDE DEF V, step
<1>3. PICK C \in [0..LastDay -> V] : IsIteration(LastDay, {}, step, C)
  BY <1>1, IterationExists
<1>4. ASSUME NEW t \in 0..LastDay
      PROVE  C[t] = IF t = 0 THEN {} ELSE Takes(days, t, C[t - 1])
  <2>1. CASE t = 0
    BY <1>3, <2>1 DEF IsIteration
  <2>2. CASE t # 0
    <3>1. t \in 1..LastDay /\ t - 1 \in 0..LastDay
      BY <1>1, <2>2
    <3>2. C[t - 1] \in V
      BY <1>3, <3>1
    <3>3. QED
      BY <1>2, <1>3, <2>2, <3>1, <3>2 DEF IsIteration
  <2>3. QED
    BY <2>1, <2>2
<1>5. C = [t \in 0..LastDay |-> C[t]]
  BY <1>3
<1>6. IsCounted(days, C)
  BY <1>4, <1>5 DEF IsCounted
<1>7. QED
  BY <1>3, <1>6 DEF V

\* C[t] are the days up to t that count.
Counts(days, C) == C[0] = {} /\ \A t \in 1..LastDay : C[t] = Takes(days, t, C[t - 1])

ShownOn(history, d) == {t \in Days : <<d, t>> \in history}

LEMMA OccasionsCount ==
  ASSUME NEW history, NEW d
  PROVE  \E C : Counts(ShownOn(history, d), C) /\ Occasions(history, d) = Cardinality(C[LastDay])
<1> DEFINE days == ShownOn(history, d)
           C == CHOOSE B : IsCounted(days, B)
<1>1. IsCounted(days, C)
  BY CountedExists
<1>2. Occasions(history, d) = Cardinality(C[LastDay])
  BY DEF Occasions, IsCounted, Takes, ShownOn
<1> HIDE DEF C, days
<1>3. \A t \in 0..LastDay : C[t] = IF t = 0 THEN {} ELSE Takes(days, t, C[t - 1])
  BY <1>1 DEF IsCounted
<1>4. Counts(days, C)
  BY <1>3, HoldoutAssumption DEF Counts
<1>5. QED
  BY <1>2, <1>4 DEF days

LEMMA CountsUpToDay ==
  ASSUME NEW days, NEW C, Counts(days, C)
  PROVE  \A t \in 0..LastDay : C[t] \in SUBSET (1..t)
<1> DEFINE S == {t \in Nat : C[t] \in SUBSET (1..t)}
<1>1. 0 \in S
  BY DEF Counts
<1>2. ASSUME NEW t \in 0..(LastDay - 1), t \in S PROVE t + 1 \in S
  <2>1. t + 1 \in 1..LastDay /\ (t + 1) - 1 = t /\ t + 1 \in Nat /\ t \in Nat
    BY HoldoutAssumption
  <2>2. C[t + 1] = Takes(days, t + 1, C[t])
    BY <2>1 DEF Counts
  <2>3. C[t + 1] \subseteq C[t] \cup {t + 1}
    BY <2>2 DEF Takes
  <2>4. C[t] \in SUBSET (1..t)
    BY <1>2
  <2>5. C[t + 1] \in SUBSET (1..(t + 1))
    BY <2>1, <2>3, <2>4
  <2>6. QED
    BY <2>1, <2>5
<1>3. 0..LastDay \subseteq S
  <2> HIDE DEF S
  <2>1. QED
    BY <1>1, <1>2, HoldoutAssumption, BoundedSetInduction
<1>4. QED
  BY <1>3

\* The count B is not behind the count A: it is longer, or as long and no later.
Ahead(B, A) ==
  \/ Cardinality(B) > Cardinality(A)
  \/ Cardinality(B) = Cardinality(A) /\ \A v \in B : \E u \in A : v <= u

\* Of two sets of days, one within the other, the larger counts stay ahead for
\* another day.
LEMMA TakesStaysAhead ==
  ASSUME NEW few, NEW many, few \subseteq many, NEW t \in Nat,
         NEW A \in SUBSET (1..t), NEW B \in SUBSET (1..t), Ahead(B, A)
  PROVE  Ahead(Takes(many, t + 1, B), Takes(few, t + 1, A))
<1> DEFINE far(S) == \A u \in S : (t + 1) - u >= Spacing
<1>0. /\ Takes(many, t + 1, B) = IF t + 1 \in many /\ far(B) THEN B \cup {t + 1} ELSE B
      /\ Takes(few, t + 1, A) = IF t + 1 \in few /\ far(A) THEN A \cup {t + 1} ELSE A
  BY DEF Takes
<1>1. \A S \in SUBSET (1..t) :
        /\ Cardinality(S) \in Nat
        /\ Cardinality(S \cup {t + 1}) = Cardinality(S) + 1
  <2>1. SUFFICES ASSUME NEW S \in SUBSET (1..t)
                 PROVE  /\ Cardinality(S) \in Nat
                        /\ Cardinality(S \cup {t + 1}) = Cardinality(S) + 1
    OBVIOUS
  <2>2. IsFiniteSet(S)
    <3>1. 1 \in Int /\ t \in Int
      OBVIOUS
    <3>2. IsFiniteSet(1..t)
      BY <3>1, FS_Interval
    <3>3. QED
      BY <3>2, FS_Subset
  <2>3. t + 1 \notin S
    BY <2>1
  <2>4. QED
    BY <2>2, <2>3, FS_AddElement, FS_CardinalityType
<1> HIDE DEF far
<1>sizes. /\ Cardinality(A) \in Nat /\ Cardinality(A \cup {t + 1}) = Cardinality(A) + 1
      /\ Cardinality(B) \in Nat /\ Cardinality(B \cup {t + 1}) = Cardinality(B) + 1
  BY <1>1
<1>2. \A v \in B : v <= t + 1 /\ v \in Int
  OBVIOUS
<1>3. CASE t + 1 \in few /\ far(A)
  <2>1. CASE Cardinality(B) > Cardinality(A)
    <3>1. Takes(few, t + 1, A) = A \cup {t + 1}
      BY <1>0, <1>3
    <3>2. CASE Takes(many, t + 1, B) = B \cup {t + 1}
      BY <1>sizes, <2>1, <3>1, <3>2 DEF Ahead
    <3>3. CASE Takes(many, t + 1, B) = B
      <4>1. Cardinality(B) >= Cardinality(A \cup {t + 1})
              /\ Cardinality(B) \in Nat /\ Cardinality(A \cup {t + 1}) \in Nat
        BY <1>sizes, <2>1
      <4>2. \A v \in B : \E u \in A \cup {t + 1} : v <= u
        BY <1>2
      <4>3. Ahead(B, A \cup {t + 1})
        BY <4>1, <4>2 DEF Ahead
      <4>4. QED
        BY <3>1, <3>3, <4>3
    <3>4. QED
      BY <1>0, <3>2, <3>3
  <2>2. CASE Cardinality(B) = Cardinality(A) /\ \A v \in B : \E u \in A : v <= u
    <3>1. far(B)
      <4>1. SUFFICES ASSUME NEW v \in B PROVE (t + 1) - v >= Spacing
        BY DEF far
      <4>2. PICK u \in A : v <= u
        BY <2>2
      <4>3. (t + 1) - u >= Spacing /\ u \in Int /\ v \in Int /\ Spacing \in Int
        BY <1>3, HoldoutAssumption DEF far
      <4>4. QED
        BY <4>2, <4>3
    <3>2. Takes(many, t + 1, B) = B \cup {t + 1} /\ Takes(few, t + 1, A) = A \cup {t + 1}
      BY <1>0, <1>3, <3>1
    <3>3. Cardinality(B \cup {t + 1}) = Cardinality(A \cup {t + 1})
      BY <1>sizes, <2>2
    <3>4. \A v \in B \cup {t + 1} : v <= t + 1
      BY <1>2
    <3>5. QED
      BY <3>2, <3>3, <3>4 DEF Ahead
  <2>3. QED
    BY <2>1, <2>2 DEF Ahead
<1>4. CASE ~(t + 1 \in few /\ far(A))
  <2>1. Takes(few, t + 1, A) = A
    BY <1>0, <1>4
  <2>2. Takes(many, t + 1, B) = B \/ Takes(many, t + 1, B) = B \cup {t + 1}
    BY <1>0
  <2>3. CASE Takes(many, t + 1, B) = B \cup {t + 1}
    <3>1. Cardinality(B \cup {t + 1}) > Cardinality(A)
      <4>1. Cardinality(B) \in Nat /\ Cardinality(A) \in Nat
              /\ Cardinality(B \cup {t + 1}) = Cardinality(B) + 1
        BY <1>sizes
      <4>2. Cardinality(B) >= Cardinality(A)
        BY <4>1 DEF Ahead
      <4>3. QED
        BY <4>1, <4>2
    <3>2. QED
      BY <2>1, <2>3, <3>1 DEF Ahead
  <2>4. QED
    BY <2>1, <2>2, <2>3
<1>5. QED
  BY <1>3, <1>4

\* More showings are never fewer occasions, whatever their days.
LEMMA OccasionsGrow ==
  ASSUME NEW h, NEW g, h \subseteq g, NEW d
  PROVE  /\ Occasions(h, d) \in Nat /\ Occasions(g, d) \in Nat
         /\ Occasions(g, d) >= Occasions(h, d)
<1> DEFINE few == ShownOn(h, d)
           many == ShownOn(g, d)
<1>1. few \subseteq many
  BY DEF ShownOn
<1>2. PICK A : Counts(few, A) /\ Occasions(h, d) = Cardinality(A[LastDay])
  BY OccasionsCount
<1>3. PICK B : Counts(many, B) /\ Occasions(g, d) = Cardinality(B[LastDay])
  BY OccasionsCount
<1> HIDE DEF few, many
<1>4. \A t \in 0..LastDay : A[t] \in SUBSET (1..t) /\ B[t] \in SUBSET (1..t)
  BY <1>2, <1>3, CountsUpToDay
<1> DEFINE S == {t \in Nat : Ahead(B[t], A[t])}
<1>5. 0 \in S
  BY <1>2, <1>3 DEF Counts, Ahead
<1>6. ASSUME NEW t \in 0..(LastDay - 1), t \in S PROVE t + 1 \in S
  <2>1. t + 1 \in 1..LastDay /\ (t + 1) - 1 = t /\ t \in 0..LastDay /\ t \in Nat /\ t + 1 \in Nat
    BY HoldoutAssumption
  <2>2. A[t + 1] = Takes(few, t + 1, A[t]) /\ B[t + 1] = Takes(many, t + 1, B[t])
    BY <1>2, <1>3, <2>1 DEF Counts
  <2>3. A[t] \in SUBSET (1..t) /\ B[t] \in SUBSET (1..t) /\ Ahead(B[t], A[t])
    BY <1>4, <1>6, <2>1
  <2>4. Ahead(B[t + 1], A[t + 1])
    BY <1>1, <2>1, <2>2, <2>3, TakesStaysAhead
  <2>5. QED
    BY <2>1, <2>4
<1>7. LastDay \in S
  <2> HIDE DEF S
  <2>1. LastDay \in Nat /\ LastDay \in 0..LastDay
    BY HoldoutAssumption
  <2>2. 0..LastDay \subseteq S
    BY <1>5, <1>6, <2>1, BoundedSetInduction
  <2>3. QED
    BY <2>1, <2>2
<1>8. Cardinality(A[LastDay]) \in Nat /\ Cardinality(B[LastDay]) \in Nat
  <2>1. LastDay \in Nat /\ LastDay \in 0..LastDay
    BY HoldoutAssumption
  <2>2. IsFiniteSet(1..LastDay)
    BY <2>1, FS_Interval
  <2>3. A[LastDay] \in SUBSET (1..LastDay) /\ B[LastDay] \in SUBSET (1..LastDay)
    BY <1>4, <2>1
  <2>4. QED
    BY <2>2, <2>3, FS_Subset, FS_CardinalityType
<1>9. QED
  BY <1>2, <1>3, <1>7, <1>8 DEF Ahead

\* No showing, however late it arrives and from whatever tablet, takes back an
\* occasion or brings a paid debt up again, for any spacing and any number of days.
THEOREM PaidDebtsStayPaid == HoldoutSpec => DebtsOnlyShrink
<1>1. ASSUME [HoldoutNext]_holdout
      PROVE  \A d \in Triggered(surfaced) :
               /\ Occasions(surfaced', d) >= Occasions(surfaced, d)
               /\ d \in Owed(surfaced') => d \in Owed(surfaced)
  <2>1. surfaced \subseteq surfaced'
    BY <1>1 DEF HoldoutNext, holdout, NextDay, Show, ReachesProfile
  <2>2. SUFFICES ASSUME NEW d \in Triggered(surfaced)
                 PROVE  /\ Occasions(surfaced', d) >= Occasions(surfaced, d)
                        /\ d \in Owed(surfaced') => d \in Owed(surfaced)
    OBVIOUS
  <2>3. /\ Occasions(surfaced, d) \in Nat /\ Occasions(surfaced', d) \in Nat
        /\ Occasions(surfaced', d) >= Occasions(surfaced, d)
    BY <2>1, OccasionsGrow
  <2>4. ASSUME d \in Owed(surfaced') PROVE d \in Owed(surfaced)
    <3>1. d \in Taxonomy /\ Occasions(surfaced', d) < MinExposures
      BY <2>4 DEF Owed
    <3>2. Occasions(surfaced, d) < MinExposures
      BY <2>3, <3>1, HoldoutAssumption
    <3>3. QED
      BY <3>1, <3>2 DEF Owed
  <2>5. QED
    BY <2>3, <2>4
<1>2. QED
  BY <1>1, PTL DEF HoldoutSpec, DebtsOnlyShrink

(***************************************************************************)
(* What a visit holds against a cell: any artifacts, verbs, visits, days   *)
(***************************************************************************)

ActRecord   == [artifact : Artifact, verb : Verb, visit : Visit, day : Nat]
OfferRecord == [artifact : Artifact \ Linked, visit : Visit, day : Nat]

\* The offers of one visit come in the order of their days.
InDayOrder ==
  \A i, j \in DOMAIN offers :
    i <= j /\ offers[i].visit = offers[j].visit => offers[i].day <= offers[j].day

ActLogged(r)   == acts' = Append(acts, r) /\ UNCHANGED offers
OfferLogged(o) ==
  /\ offers' = Append(offers, o) /\ UNCHANGED acts
  /\ \A p \in During(offers, o.visit) : p.day <= o.day

\* Whatever arrives is one record, and an offer no older than its visit's others.
LEMMA SignalSteps ==
  ASSUME SignalsTypeOK, [SignalsNext]_signals
  PROVE  \/ \E r \in ActRecord : ActLogged(r)
         \/ \E o \in OfferRecord : OfferLogged(o)
         \/ UNCHANGED signals
<1> USE SignalAssumption
<1>1. ASSUME NEW s \in Visit, NEW d \in DaysLeft(s) PROVE d \in Nat
  BY DEF DaysLeft
<1>2. ASSUME NEW s \in Visit, NEW a \in Artifact, OfferArrives(s, a)
      PROVE  \E o \in OfferRecord : OfferLogged(o)
  <2>1. PICK d \in DaysLeft(s) : offers' = Append(offers, [artifact |-> a, visit |-> s, day |-> d])
    BY <1>2 DEF OfferArrives
  <2>2. \A p \in During(offers, s) : p.day <= d
    BY DEF DaysLeft
  <2> DEFINE o == [artifact |-> a, visit |-> s, day |-> d]
  <2>3. o \in OfferRecord /\ o.visit = s /\ o.day = d
    BY <1>1, <1>2 DEF OfferRecord, OfferArrives
  <2>4. UNCHANGED acts
    BY <1>2 DEF OfferArrives
  <2>5. OfferLogged(o)
    BY <2>1, <2>2, <2>3, <2>4 DEF OfferLogged
  <2>6. QED
    BY <2>3, <2>5
<1>3. ASSUME NEW s \in Visit, NEW a \in Artifact, NEW v \in Verb, Acted(s, a, v)
      PROVE  \E r \in ActRecord : ActLogged(r)
  <2>1. PICK d \in DaysLeft(s) :
          acts' = Append(acts, [artifact |-> a, verb |-> v, visit |-> s, day |-> d])
    BY <1>3 DEF Acted
  <2>2. [artifact |-> a, verb |-> v, visit |-> s, day |-> d] \in ActRecord
    BY <1>1 DEF ActRecord
  <2>3. UNCHANGED offers
    BY <1>3 DEF Acted
  <2>4. QED
    BY <2>1, <2>2, <2>3 DEF ActLogged
<1>4. QED
  BY <1>2, <1>3 DEF SignalsNext, ActArrives, FollowArrives

LEMMA SignalsStart == SignalsInit => SignalsTypeOK /\ InDayOrder
BY DEF SignalsInit, SignalsTypeOK, InDayOrder

\* An entry more: the old ones stay in their places.
LEMMA OneMore ==
  ASSUME NEW S, NEW s \in Seq(S), NEW e \in S
  PROVE  /\ Append(s, e) \in Seq(S) /\ Len(s) \in Nat
         /\ DOMAIN s = 1..Len(s) /\ DOMAIN Append(s, e) = 1..(Len(s) + 1)
         /\ \A i \in 1..Len(s) : Append(s, e)[i] = s[i]
         /\ Append(s, e)[Len(s) + 1] = e
         /\ ToSet(Append(s, e)) = ToSet(s) \cup {e}
         /\ ToSet(s) \subseteq S
<1>1. /\ Append(s, e) \in Seq(S) /\ Len(s) \in Nat
      /\ DOMAIN s = 1..Len(s) /\ DOMAIN Append(s, e) = 1..(Len(s) + 1)
      /\ \A i \in 1..Len(s) : Append(s, e)[i] = s[i]
      /\ Append(s, e)[Len(s) + 1] = e
  OBVIOUS
<1> DEFINE t == Append(s, e)
<1> HIDE DEF t
<1>2. \A i \in 1..(Len(s) + 1) : i \in 1..Len(s) \/ i = Len(s) + 1
  BY <1>1
<1>3. ToSet(t) = ToSet(s) \cup {e}
  BY <1>1, <1>2 DEF ToSet, t
<1>4. QED
  BY <1>1, <1>3 DEF ToSet, t

LEMMA SignalsKept ==
  ASSUME SignalsTypeOK, InDayOrder, [SignalsNext]_signals
  PROVE  /\ SignalsTypeOK' /\ InDayOrder'
         /\ ToSet(acts) \subseteq ToSet(acts') /\ ToSet(offers) \subseteq ToSet(offers')
<1>1. acts \in Seq(ActRecord) /\ offers \in Seq(OfferRecord)
  BY DEF SignalsTypeOK, ActRecord, OfferRecord
<1>2. ASSUME NEW r \in ActRecord, ActLogged(r)
      PROVE  /\ SignalsTypeOK' /\ InDayOrder'
             /\ ToSet(acts) \subseteq ToSet(acts') /\ ToSet(offers) \subseteq ToSet(offers')
  <2>1. acts' \in Seq(ActRecord) /\ ToSet(acts) \subseteq ToSet(acts') /\ offers' = offers
    BY <1>1, <1>2, OneMore DEF ActLogged
  <2>2. QED
    BY <1>1, <2>1 DEF InDayOrder, SignalsTypeOK, ActRecord, OfferRecord
<1>3. ASSUME NEW o \in OfferRecord, OfferLogged(o)
      PROVE  /\ SignalsTypeOK' /\ InDayOrder'
             /\ ToSet(acts) \subseteq ToSet(acts') /\ ToSet(offers) \subseteq ToSet(offers')
  <2>1. /\ offers' \in Seq(OfferRecord) /\ ToSet(offers) \subseteq ToSet(offers') /\ acts' = acts
        /\ DOMAIN offers = 1..Len(offers) /\ DOMAIN offers' = 1..(Len(offers) + 1)
        /\ Len(offers) \in Nat /\ offers'[Len(offers) + 1] = o
        /\ \A i \in 1..Len(offers) : offers'[i] = offers[i]
    BY <1>1, <1>3, OneMore DEF OfferLogged
  <2>2. InDayOrder'
    <3>1. SUFFICES ASSUME NEW i \in DOMAIN offers', NEW j \in DOMAIN offers', i <= j,
                          offers'[i].visit = offers'[j].visit
                   PROVE  offers'[i].day <= offers'[j].day
      BY DEF InDayOrder
    <3>2. CASE j \in 1..Len(offers)
      BY <2>1, <3>1, <3>2 DEF InDayOrder
    <3>3. CASE j = Len(offers) + 1 /\ i \in 1..Len(offers)
      <4>1. offers[i] \in During(offers, o.visit)
        BY <2>1, <3>1, <3>3 DEF During, ToSet
      <4>2. QED
        BY <1>3, <2>1, <3>3, <4>1 DEF OfferLogged
    <3>4. CASE i = Len(offers) + 1 /\ j = Len(offers) + 1
      BY <2>1, <3>4 DEF OfferRecord
    <3>5. QED
      BY <2>1, <3>1, <3>2, <3>3, <3>4
  <2>3. QED
    BY <1>1, <2>1, <2>2 DEF SignalsTypeOK, ActRecord, OfferRecord
<1>4. CASE UNCHANGED signals
  BY <1>4 DEF signals, InDayOrder, SignalsTypeOK
<1>5. QED
  BY <1>2, <1>3, <1>4, SignalSteps

-----------------------------------------------------------------------------
(* The read of one log *)

\* The members of a sequence are finitely many.
LEMMA FiniteMembers ==
  ASSUME NEW S, NEW s \in Seq(S)
  PROVE  IsFiniteSet(ToSet(s)) /\ ToSet(s) \subseteq S
<1>1. Len(s) \in Nat /\ DOMAIN s = 1..Len(s) /\ s \in [1..Len(s) -> S]
  OBVIOUS
<1>2. s \in [1..Len(s) -> ToSet(s)] /\ \A e \in ToSet(s) : \E i \in 1..Len(s) : s[i] = e
  BY <1>1 DEF ToSet
<1>3. s \in Surjection(1..Len(s), ToSet(s))
  BY <1>2 DEF Surjection
<1>4. IsFiniteSet(ToSet(s))
  BY <1>1, <1>3, FS_Interval, FS_Surjection DEF ExistsSurjection
<1>5. QED
  BY <1>1, <1>4 DEF ToSet

LEMMA SignalRecords ==
  ASSUME SignalsTypeOK
  PROVE  /\ ToSet(acts) \subseteq ActRecord /\ IsFiniteSet(ToSet(acts))
         /\ ToSet(offers) \subseteq OfferRecord /\ IsFiniteSet(ToSet(offers))
BY FiniteMembers DEF SignalsTypeOK, ActRecord, OfferRecord

\* A cell is not new on an offer's day when it was met before the window began.
LEMMA NovelIs ==
  ASSUME SignalsTypeOK, NEW o \in ToSet(offers), NEW c \in Offered(o.artifact)
  PROVE  ~Novel(c, o.day) <=> \E e \in Exposures(c) : o.day > e + NoveltyDays
<1>1. /\ \A p \in ToSet(offers) : p.day \in Nat
      /\ \A r \in ToSet(acts) : r.day \in Nat
  BY SignalRecords DEF ActRecord, OfferRecord
<1>2. o.day \in Exposures(c) /\ Exposures(c) \in SUBSET Nat
  BY <1>1 DEF Exposures
<1>3. PICK d \in Exposures(c) : \A e \in Exposures(c) : d <= e
  BY <1>2, LeastOf
<1>4. /\ FirstExposure(c) \in Exposures(c)
      /\ \A e \in Exposures(c) : FirstExposure(c) <= e
  BY <1>3 DEF FirstExposure
<1>5. NoveltyDays \in Nat /\ o.day \in Nat /\ FirstExposure(c) \in Nat
  BY <1>1, <1>2, <1>4, SignalAssumption
<1>6. QED
  BY <1>2, <1>4, <1>5 DEF Novel

\* The offers of visit s that count the cell c.
CountedOffers(s, c) == {o \in During(offers, s) : c \in PassedBy(o)}

LEMMA PassedByIs ==
  ASSUME SignalsTypeOK, NEW s \in Visit, Taken(s) # {}, NEW c
  PROVE  /\ KnownOffers(s, c) # {} /\ c \notin Taken(s)
              => KnownOffers(s, c) = {o.day : o \in CountedOffers(s, c)}
         /\ c \in PassedOver(s) <=> CountedOffers(s, c) # {}
<1>1. ASSUME NEW o \in During(offers, s)
      PROVE  c \in PassedBy(o)
               <=> /\ c \in Offered(o.artifact) /\ c \notin Taken(s)
                   /\ \E e \in Exposures(c) : o.day > e + NoveltyDays
  <2>1. o \in ToSet(offers) /\ o.visit = s
    BY DEF During
  <2>2. QED
    BY <2>1, NovelIs DEF PassedBy
<1>2. c \notin Taken(s) => KnownOffers(s, c) = {o.day : o \in CountedOffers(s, c)}
  BY <1>1 DEF KnownOffers, CountedOffers
<1>3. CountedOffers(s, c) # {} => c \notin Taken(s) /\ \E a \in ShownIn(s) : c \in Offered(a)
  BY <1>1 DEF CountedOffers, ShownIn
<1>4. QED
  BY <1>2, <1>3 DEF PassedOver

\* P[i] is what the first i offers of the log come to, for visit s.
Tallies(s, P) ==
  P = [i \in 0..Len(offers) |->
         IF i = 0 THEN NothingPassed
         ELSE IF offers[i].visit = s THEN Counting(P[i - 1], offers[i])
         ELSE P[i - 1]]

LEMMA TallyExists ==
  ASSUME SignalsTypeOK, NEW s
  PROVE  \E P : Tallies(s, P)
<1> DEFINE N == Len(offers)
           Cells == UNION {PassedBy(o) : o \in ToSet(offers)}
           V == UNION {[D -> Nat] : D \in SUBSET Cells}
           Step(i, p) == IF offers[i].visit = s THEN Counting(p, offers[i]) ELSE p
           step == [i \in 1..N |-> [p \in V |-> Step(i, p)]]
<1>1. N \in Nat /\ \A i \in 1..N : offers[i] \in ToSet(offers) /\ offers[i].day \in Nat
  BY SignalRecords DEF SignalsTypeOK, ToSet, OfferRecord
<1>2. NothingPassed \in V
  <2>1. NothingPassed \in [{} -> Nat] /\ {} \in SUBSET Cells
    BY DEF NothingPassed
  <2> HIDE DEF Cells
  <2>2. QED
    BY <2>1
<1>3. ASSUME NEW i \in 1..N, NEW p \in V PROVE Step(i, p) \in V
  <2> DEFINE E == DOMAIN p \cup PassedBy(offers[i])
             q == [c \in E |-> IF c \in DOMAIN p THEN p[c] ELSE offers[i].day]
  <2>1. PICK D \in SUBSET Cells : p \in [D -> Nat]
    OBVIOUS
  <2>2. PassedBy(offers[i]) \subseteq Cells
    BY <1>1
  <2>3. E \in SUBSET Cells /\ q \in [E -> Nat]
    <3> HIDE DEF Cells
    <3>1. QED
      BY <1>1, <2>1, <2>2
  <2>4. Counting(p, offers[i]) = q
    BY DEF Counting
  <2> HIDE DEF Cells, q, E
  <2>5. QED
    BY <2>3, <2>4
<1> HIDE DEF V, Step
<1>4. step \in [1..N -> [V -> V]] /\ \A i \in 1..N, p \in V : step[i][p] = Step(i, p)
  BY <1>3
<1> HIDE DEF step
<1>5. PICK P \in [0..N -> V] : IsIteration(N, NothingPassed, step, P)
  BY <1>1, <1>2, <1>4, IterationExists
<1>6. ASSUME NEW i \in 0..N
      PROVE  P[i] = IF i = 0 THEN NothingPassed ELSE Step(i, P[i - 1])
  <2>1. CASE i = 0
    BY <1>5, <2>1 DEF IsIteration
  <2>2. CASE i # 0
    <3>1. i \in 1..N /\ P[i - 1] \in V
      BY <1>1, <1>5, <2>2
    <3>2. QED
      BY <1>4, <1>5, <2>2, <3>1 DEF IsIteration
  <2>3. QED
    BY <2>1, <2>2
<1>7. P = [i \in 0..N |-> IF i = 0 THEN NothingPassed ELSE Step(i, P[i - 1])]
  BY <1>5, <1>6
<1>8. QED
  BY <1>7 DEF Tallies, Step

\* p holds the cells counted by the first n offers, each at the day of the first.
TalliedTo(n, s, p) ==
  /\ DOMAIN p = {c \in UNION {PassedBy(offers[j]) : j \in 1..n} :
                   \E j \in 1..n : offers[j].visit = s /\ c \in PassedBy(offers[j])}
  /\ \A c \in DOMAIN p : \E j \in 1..n :
       /\ offers[j].visit = s /\ c \in PassedBy(offers[j]) /\ p[c] = offers[j].day
       /\ \A k \in 1..n : offers[k].visit = s /\ c \in PassedBy(offers[k]) => j <= k

LEMMA TallyIs ==
  ASSUME SignalsTypeOK, NEW s, NEW P, Tallies(s, P)
  PROVE  TalliedTo(Len(offers), s, P[Len(offers)])
<1> DEFINE N == Len(offers)
           S == {i \in Nat : TalliedTo(i, s, P[i])}
<1>1. N \in Nat
  BY DEF SignalsTypeOK
<1>2. \A i \in 0..N : P[i] = IF i = 0 THEN NothingPassed
                            ELSE IF offers[i].visit = s THEN Counting(P[i - 1], offers[i])
                            ELSE P[i - 1]
  BY DEF Tallies
<1>3. 0 \in S
  <2>1. P[0] = NothingPassed
    BY <1>1, <1>2
  <2>2. QED
    BY <2>1 DEF NothingPassed, TalliedTo
<1>4. ASSUME NEW i \in 0..(N - 1), i \in S PROVE i + 1 \in S
  <2> DEFINE p == P[i]
             q == P[i + 1]
             o == offers[i + 1]
             Tells(j, c) == offers[j].visit = s /\ c \in PassedBy(offers[j])
  <2>1. /\ i + 1 \in 0..N /\ i + 1 # 0 /\ (i + 1) - 1 = i /\ i \in Nat /\ i + 1 \in Nat
        /\ 1..(i + 1) = 1..i \cup {i + 1} /\ i + 1 \notin 1..i
    BY <1>1
  <2>2. q = IF o.visit = s THEN Counting(p, o) ELSE p
    BY <1>2, <2>1
  <2>3. TalliedTo(i, s, p)
    BY <1>4
  <2> HIDE DEF p, q
  <2>4. /\ \A c : c \in DOMAIN p <=> \E j \in 1..i : Tells(j, c)
        /\ \A c \in DOMAIN p : \E j \in 1..i :
             /\ Tells(j, c) /\ p[c] = offers[j].day /\ \A k \in 1..i : Tells(k, c) => j <= k
    BY <2>3 DEF TalliedTo
  <2>5. /\ \A c : c \in DOMAIN q <=> c \in DOMAIN p \/ Tells(i + 1, c)
        /\ \A c \in DOMAIN q : q[c] = IF c \in DOMAIN p THEN p[c] ELSE o.day
    BY <2>2 DEF Counting
  <2>6. TalliedTo(i + 1, s, q)
    <3> HIDE DEF Tells
    <3>1. \A c : c \in DOMAIN q <=> \E j \in 1..(i + 1) : Tells(j, c)
      BY <2>1, <2>4, <2>5
    <3>2. ASSUME NEW c \in DOMAIN q
          PROVE  \E j \in 1..(i + 1) :
                   /\ Tells(j, c) /\ q[c] = offers[j].day
                   /\ \A k \in 1..(i + 1) : Tells(k, c) => j <= k
      <4>1. CASE c \in DOMAIN p
        BY <2>1, <2>4, <2>5, <4>1
      <4>2. CASE c \notin DOMAIN p
        BY <2>1, <2>4, <2>5, <4>2
      <4>3. QED
        BY <4>1, <4>2
    <3>3. QED
      BY <3>1, <3>2 DEF TalliedTo, Tells
  <2>7. QED
    BY <2>1, <2>6 DEF q
<1>5. 0..N \subseteq S
  <2> HIDE DEF S
  <2>1. QED
    BY <1>1, <1>3, <1>4, BoundedSetInduction
<1>6. QED
  BY <1>1, <1>5

\* What a visit holds: the cells it passed over, each from the first known offer on.
HoldsTheRecord ==
  \A s \in Visit :
    /\ DOMAIN NotChosen(s) = PassedOver(s)
    /\ \A c \in PassedOver(s) :
         /\ NotChosen(s)[c] \in KnownOffers(s, c)
         /\ \A d \in KnownOffers(s, c) : NotChosen(s)[c] <= d

LEMMA VisitHoldsTheRecord ==
  ASSUME SignalsTypeOK, InDayOrder
  PROVE  HoldsTheRecord
<1>1. SUFFICES ASSUME NEW s \in Visit
               PROVE  /\ DOMAIN NotChosen(s) = PassedOver(s)
                      /\ \A c \in PassedOver(s) :
                           /\ NotChosen(s)[c] \in KnownOffers(s, c)
                           /\ \A d \in KnownOffers(s, c) : NotChosen(s)[c] <= d
  BY DEF HoldsTheRecord
<1> DEFINE P == CHOOSE Q : Tallies(s, Q)
           N == Len(offers)
           p == P[N]
           Tells(j, c) == offers[j].visit = s /\ c \in PassedBy(offers[j])
<1>2. CASE Taken(s) = {}
  <2>1. NotChosen(s) = NothingPassed /\ PassedOver(s) = {}
    BY <1>2 DEF NotChosen, PassedOver
  <2>2. QED
    BY <2>1 DEF NothingPassed
<1>3. CASE Taken(s) # {}
  <2>1. Tallies(s, P)
    BY TallyExists
  <2>2. NotChosen(s) = p
    BY <1>3 DEF NotChosen, Tallies
  <2>3. TalliedTo(N, s, p)
    <3> HIDE DEF P
    <3>1. QED
      BY <2>1, TallyIs
  <2> HIDE DEF p, Tells
  <2>4. /\ \A c : c \in DOMAIN p <=> \E j \in 1..N : Tells(j, c)
        /\ \A c \in DOMAIN p : \E j \in 1..N :
             /\ Tells(j, c) /\ p[c] = offers[j].day /\ \A k \in 1..N : Tells(k, c) => j <= k
    BY <2>3 DEF TalliedTo, Tells
  <2>5. DOMAIN offers = 1..N
    BY DEF SignalsTypeOK
  <2>6. \A c, o : o \in CountedOffers(s, c) <=> \E j \in 1..N : Tells(j, c) /\ o = offers[j]
    BY <2>5 DEF CountedOffers, Tells, During, ToSet
  <2>7. \A c : c \in DOMAIN p <=> c \in PassedOver(s)
    <3>1. \A c : c \in PassedOver(s) <=> CountedOffers(s, c) # {}
      BY <1>3, PassedByIs
    <3>2. QED
      BY <2>4, <2>6, <3>1
  <2>8. ASSUME NEW c \in PassedOver(s)
        PROVE  p[c] \in KnownOffers(s, c) /\ \A d \in KnownOffers(s, c) : p[c] <= d
    <3>1. KnownOffers(s, c) = {o.day : o \in CountedOffers(s, c)}
      <4>1. KnownOffers(s, c) # {} /\ c \notin Taken(s)
        BY DEF PassedOver
      <4>2. QED
        BY <1>3, <4>1, PassedByIs
    <3>2. PICK j \in 1..N : /\ Tells(j, c) /\ p[c] = offers[j].day
                            /\ \A k \in 1..N : Tells(k, c) => j <= k
      BY <2>4, <2>7
    <3>3. p[c] \in KnownOffers(s, c)
      BY <2>6, <3>1, <3>2
    <3>4. ASSUME NEW k \in 1..N, Tells(k, c) PROVE p[c] <= offers[k].day
      BY <2>5, <3>2, <3>4 DEF InDayOrder, Tells
    <3>5. QED
      BY <2>6, <3>1, <3>3, <3>4
  <2>9. DOMAIN p = PassedOver(s)
    BY <2>7 DEF TalliedTo, PassedOver, KnownOffers
  <2>10. QED
    BY <2>2, <2>8, <2>9
<1>4. QED
  BY <1>2, <1>3

\* The cells on offer, and so those passed over, are finitely many.
LEMMA PassedOverFinite ==
  ASSUME SignalsTypeOK, NEW s \in Visit
  PROVE  IsFiniteSet(PassedOver(s))
<1>1. ASSUME NEW a \in Artifact PROVE IsFiniteSet(Offered(a))
  <2> DEFINE R == {r \in {r \in ToSet(acts) : r.artifact = a} : Engages(r)}
             eng == [r \in R |-> EngagedCell(r)]
             aff == [m \in Affords[a] |-> <<Topics[a], m>>]
             E == Engaged({r \in ToSet(acts) : r.artifact = a})
             F == {<<Topics[a], m>> : m \in Affords[a]}
  <2>1. IsFiniteSet(R) /\ IsFiniteSet(Affords[a])
    BY SignalRecords, SignalAssumption, FS_Subset
  <2>2. eng \in Surjection(R, E)
    BY DEF Engaged, Surjection
  <2>3. aff \in Surjection(Affords[a], F)
    BY DEF Surjection
  <2> HIDE DEF R, eng, aff, E, F
  <2>4. IsFiniteSet(E) /\ IsFiniteSet(F)
    BY <2>1, <2>2, <2>3, FS_Surjection
  <2>5. IsFiniteSet(E \cup F)
    BY <2>4, FS_Union
  <2>6. QED
    BY <2>5 DEF Offered, E, F
<1> DEFINE on == [o \in During(offers, s) |-> Offered(o.artifact)]
           all == {Offered(a) : a \in ShownIn(s)}
<1>2. IsFiniteSet(During(offers, s)) /\ \A o \in During(offers, s) : o.artifact \in Artifact
  BY SignalRecords, FS_Subset DEF During, OfferRecord
<1>3. on \in Surjection(During(offers, s), all)
  BY DEF ShownIn, Surjection
<1>4. \A T \in all : IsFiniteSet(T)
  BY <1>1, <1>2 DEF ShownIn
<1>5. PassedOver(s) \subseteq UNION all
  BY DEF PassedOver
<1> HIDE DEF on, all
<1>6. IsFiniteSet(all)
  BY <1>2, <1>3, FS_Surjection
<1>7. IsFiniteSet(UNION all)
  BY <1>4, <1>6, FS_UNION
<1>8. QED
  BY <1>5, <1>7, FS_Subset

\* What is held against cell c by visit s.
HeldOf(s, c) ==
  [cell |-> c, visit |-> s, day |-> NotChosen(s)[c],
   kind |-> IF c \in Engaged(ToSet(acts)) THEN "skip" ELSE "decline",
   choiceSetSize |-> Cardinality(DOMAIN NotChosen(s))]

LEMMA HeldIs ==
  /\ HeldAgainst = UNION {{HeldOf(s, c) : c \in DOMAIN NotChosen(s)} : s \in Visit}
  /\ \A s \in Visit :
       {e \in HeldAgainst : e.visit = s} = {HeldOf(s, c) : c \in DOMAIN NotChosen(s)}
<1>1. HeldAgainst = UNION {{HeldOf(s, c) : c \in DOMAIN NotChosen(s)} : s \in Visit}
  BY DEF HeldAgainst, HeldOf
<1>2. \A s, c : HeldOf(s, c).visit = s
  BY DEF HeldOf
<1>3. QED
  BY <1>1, <1>2

LEMMA RecordIsRead ==
  ASSUME SignalsTypeOK, InDayOrder
  PROVE  ReadsTheRecord
<1>1. SUFFICES ASSUME NEW s \in Visit,
                      NEW held, held = {e \in HeldAgainst : e.visit = s}
               PROVE  /\ {e.cell : e \in held} = PassedOver(s)
                      /\ Cardinality(held) = Cardinality(PassedOver(s))
                      /\ \A e \in held :
                           /\ e.day \in KnownOffers(s, e.cell)
                           /\ \A d \in KnownOffers(s, e.cell) : e.day <= d
                           /\ e.choiceSetSize = Cardinality(PassedOver(s))
  BY DEF ReadsTheRecord
<1>2. /\ DOMAIN NotChosen(s) = PassedOver(s)
      /\ \A c \in PassedOver(s) :
           /\ NotChosen(s)[c] \in KnownOffers(s, c)
           /\ \A d \in KnownOffers(s, c) : NotChosen(s)[c] <= d
  BY VisitHoldsTheRecord DEF HoldsTheRecord
<1>3. held = {HeldOf(s, c) : c \in PassedOver(s)}
  BY <1>1, <1>2, HeldIs
<1>4. \A c \in PassedOver(s) :
        /\ HeldOf(s, c).cell = c /\ HeldOf(s, c).day = NotChosen(s)[c]
        /\ HeldOf(s, c).choiceSetSize = Cardinality(PassedOver(s))
  BY <1>2 DEF HeldOf
<1>5. Cardinality(held) = Cardinality(PassedOver(s))
  <2> DEFINE b == [c \in PassedOver(s) |-> HeldOf(s, c)]
  <2>1. b \in Bijection(PassedOver(s), held)
    BY <1>3, <1>4 DEF Bijection, Injection, Surjection, IsInjective
  <2>2. QED
    BY <2>1, PassedOverFinite, FS_Bijection DEF ExistsBijection
<1>6. QED
  BY <1>2, <1>3, <1>4, <1>5

LEMMA SignalsAlways == SignalsSpec => [](SignalsTypeOK /\ InDayOrder)
BY SignalsStart, SignalsKept, PTL DEF SignalsSpec

\* The type invariant, for any artifacts, verbs, visits and days.
THEOREM SignalsTypeCorrect == SignalsSpec => []SignalsTypeOK
BY SignalsAlways, PTL

\* In whatever order the visits of any number of tablets arrive, the read is one of
\* what was recorded.
THEOREM RecordsAreRead == SignalsSpec => []ReadsTheRecord
<1>1. SignalsTypeOK /\ InDayOrder => ReadsTheRecord
  BY RecordIsRead
<1>2. QED
  BY <1>1, SignalsAlways, PTL

\* What was offered, taken or met stays so: a later log knows no less.
LEMMA LogOnlyGrows ==
  ASSUME ToSet(acts) \subseteq ToSet(acts'), ToSet(offers) \subseteq ToSet(offers'), NEW s
  PROVE  /\ Engaged(ToSet(acts)) \subseteq Engaged(ToSet(acts'))
         /\ Taken(s) \subseteq Taken(s)'
         /\ ShownIn(s) \subseteq ShownIn(s)'
         /\ \A a : Offered(a) \subseteq Offered(a)'
         /\ \A c : KnownOffers(s, c) \subseteq KnownOffers(s, c)'
<1>1. \A A, B : A \subseteq B => Engaged(A) \subseteq Engaged(B)
  BY DEF Engaged
<1>2. \A a : Offered(a) \subseteq Offered(a)'
  <2> SUFFICES ASSUME NEW a PROVE Offered(a) \subseteq Offered(a)'
    OBVIOUS
  <2>1. {r \in ToSet(acts) : r.artifact = a} \subseteq {r \in ToSet(acts') : r.artifact = a}
    OBVIOUS
  <2>2. QED
    BY <1>1, <2>1 DEF Offered
<1>3. /\ During(acts, s) \subseteq During(acts', s) /\ During(offers, s) \subseteq During(offers', s)
  BY DEF During
<1>4. Taken(s) \subseteq Taken(s)'
  BY <1>1, <1>2, <1>3 DEF Taken
<1>5. ShownIn(s) \subseteq ShownIn(s)'
  BY <1>3 DEF ShownIn
<1>6. \A c : Exposures(c) \subseteq Exposures(c)'
  BY <1>2 DEF Exposures
<1>7. \A c : KnownOffers(s, c) \subseteq KnownOffers(s, c)'
  BY <1>2, <1>3, <1>6 DEF KnownOffers
<1>8. QED
  BY <1>1, <1>2, <1>4, <1>5, <1>7

\* No record that arrives late takes back what a visit holds against a cell, unless it
\* shows that the visit took it.
THEOREM HeldStandsUntilTaken == SignalsSpec => HeldUntilTaken
<1>1. ASSUME HoldsTheRecord, HoldsTheRecord', SignalsTypeOK, InDayOrder,
             [SignalsNext]_signals,
             NEW e \in HeldAgainst, e.cell \notin Taken(e.visit)'
      PROVE  \E f \in HeldAgainst' :
               /\ f.cell = e.cell /\ f.visit = e.visit /\ f.day <= e.day
               /\ e.kind = "skip" => f.kind = "skip"
  <2>0. PICK s \in Visit : \E c \in DOMAIN NotChosen(s) : e = HeldOf(s, c)
    BY HeldIs
  <2>1. PICK c \in DOMAIN NotChosen(s) : e = HeldOf(s, c)
    BY <2>0
  <2>2. e.cell = c /\ e.visit = s /\ e.day = NotChosen(s)[c]
        /\ (e.kind = "skip" => c \in Engaged(ToSet(acts)))
    BY <2>1 DEF HeldOf
  <2>3. c \in PassedOver(s) /\ NotChosen(s)[c] \in KnownOffers(s, c)
    BY <1>1 DEF HoldsTheRecord
  <2>4. ToSet(acts) \subseteq ToSet(acts') /\ ToSet(offers) \subseteq ToSet(offers')
    BY <1>1, SignalsKept
  <2>5. /\ Engaged(ToSet(acts)) \subseteq Engaged(ToSet(acts'))
        /\ Taken(s) \subseteq Taken(s)' /\ ShownIn(s) \subseteq ShownIn(s)'
        /\ \A a : Offered(a) \subseteq Offered(a)'
        /\ KnownOffers(s, c) \subseteq KnownOffers(s, c)'
    BY <2>4, LogOnlyGrows
  <2>6. c \in PassedOver(s)'
    BY <1>1, <2>2, <2>3, <2>5 DEF PassedOver
  <2>7. c \in DOMAIN NotChosen(s)' /\ (NotChosen(s)[c])' <= e.day
    BY <1>1, <2>2, <2>3, <2>5, <2>6 DEF HoldsTheRecord
  <2> DEFINE f == HeldOf(s, c)'
  <2>8. f \in HeldAgainst'
    BY <2>7 DEF HeldAgainst, HeldOf
  <2>9. /\ f.cell = c /\ f.visit = s
        /\ f.day = (NotChosen(s)[c])'
        /\ c \in Engaged(ToSet(acts')) => f.kind = "skip"
    BY DEF HeldOf
  <2>10. QED
    BY <2>2, <2>5, <2>7, <2>8, <2>9
<1>2. ASSUME HoldsTheRecord, HoldsTheRecord', SignalsTypeOK, InDayOrder, [SignalsNext]_signals
      PROVE  \A e \in HeldAgainst :
               \/ e.cell \in Taken(e.visit)'
               \/ \E f \in HeldAgainst' :
                    /\ f.cell = e.cell /\ f.visit = e.visit /\ f.day <= e.day
                    /\ e.kind = "skip" => f.kind = "skip"
  BY <1>1, <1>2
<1>3. SignalsTypeOK /\ InDayOrder => HoldsTheRecord
  BY VisitHoldsTheRecord
<1>4. QED
  BY <1>2, <1>3, SignalsAlways, PTL DEF SignalsSpec, HeldUntilTaken

(***************************************************************************)
(* From a journey to its graph: any journey of any length, whatever its    *)
(* entries refer to, bear as ids or fail to hold                           *)
(***************************************************************************)

KeptEntry == [id : EventId, kind : WorkEventKind, stuck : BOOLEAN, refs : Seq(EventId)]

AnyName    == {<<"child">>, <<"model">>, <<"studio">>, <<"tool">>}
NamesOf(j) == UNION {Names(j[i]) : i \in DOMAIN j}
Ids(j)     == {j[i].id : i \in DOMAIN j}

LEMMA NamesAre ==
  /\ \A e : Author(e) \in Names(e) /\ Tools(e) \subseteq Names(e) /\ Names(e) \subseteq AnyName
  /\ EventId \cap AnyName = {}
  /\ \A x, i : <<x, i>> \notin AnyName
<1>1. \A e : Author(e) \in AnyName /\ Tools(e) \subseteq AnyName
  BY DEF Author, Tools, AnyName
<1>2. \A e : Author(e) \in Names(e) /\ Tools(e) \subseteq Names(e) /\ Names(e) \subseteq AnyName
  BY <1>1 DEF Names
<1>3. EventId \cap AnyName = {}
  BY RefAssumption DEF AnyName
<1>4. ASSUME NEW x, NEW i, <<x, i>> \in AnyName PROVE FALSE
  <2>1. Len(<<x, i>>) = 2
    OBVIOUS
  <2>2. Len(<<x, i>>) = 1
    BY <1>4 DEF AnyName
  <2>3. QED
    BY <2>1, <2>2
<1>5. QED
  BY <1>2, <1>3, <1>4

\* What a journey of kept entries is made of.
LEMMA KeptJourney ==
  ASSUME NEW j \in Seq(KeptEntry)
  PROVE  /\ Len(j) \in Nat /\ DOMAIN j = 1..Len(j)
         /\ \A i \in DOMAIN j : j[i] \in KeptEntry /\ j[i].id \in EventId /\ j[i].refs \in Seq(EventId)
         /\ Ids(j) \subseteq EventId
<1>1. Len(j) \in Nat /\ DOMAIN j = 1..Len(j) /\ \A i \in DOMAIN j : j[i] \in KeptEntry
  OBVIOUS
<1>2. QED
  BY <1>1 DEF KeptEntry, Ids

\* Entry i earns the edge e: to a name of its own or to an input, or, of a showcase,
\* from an input.
EarnedBy(j, i, e) ==
  \/ /\ j[i].kind # "showcase" /\ e.from = j[i].id
     /\ e.to \in Names(j[i]) \/ e.to \in Inputs(j, i)
  \/ j[i].kind = "showcase" /\ e.to = j[i].id /\ e.from \in Inputs(j, i)

LEMMA EdgesAreEarned ==
  ASSUME NEW j, NEW i, NEW e \in PlannedEdges(j, i)
  PROVE  EarnedBy(j, i, e)
<1> DEFINE x == j[i]
           In == Inputs(j, i)
<1>1. Author(x) \in Names(x) /\ Tools(x) \subseteq Names(x)
  BY NamesAre
<1>2. x.kind = "showcase" => Tools(x) = {}
  BY DEF Tools
<1>3. \/ x.kind \in AuthoredByChild /\ e \in EdgesTo(x, {Author(x)})
      \/ x.kind \in DerivedFromRefs \cup {"outcome"} /\ e \in EdgesTo(x, In)
      \/ e \in EdgesTo(x, Tools(x))
      \/ x.kind = "showcase" /\ e \in EdgesFrom(x, In)
  BY DEF PlannedEdges
<1> HIDE DEF x, In
<1>4. CASE x.kind \in AuthoredByChild /\ e \in EdgesTo(x, {Author(x)})
  BY <1>1, <1>4 DEF EarnedBy, EdgesTo, AuthoredByChild, x
<1>5. CASE x.kind \in DerivedFromRefs \cup {"outcome"} /\ e \in EdgesTo(x, In)
  BY <1>5 DEF EarnedBy, EdgesTo, DerivedFromRefs, x, In
<1>6. CASE e \in EdgesTo(x, Tools(x))
  BY <1>1, <1>2, <1>6 DEF EarnedBy, EdgesTo, x
<1>7. CASE x.kind = "showcase" /\ e \in EdgesFrom(x, In)
  BY <1>7 DEF EarnedBy, EdgesFrom, x, In
<1>8. QED
  BY <1>3, <1>4, <1>5, <1>6, <1>7

\* The ends of a planned edge: the id of the entry that earns it, ids of entries
\* before it and names of its own.
LEMMA PlannedEnds ==
  ASSUME NEW j \in Seq(KeptEntry), NEW i \in DOMAIN j, NEW e \in PlannedEdges(j, i)
  PROVE  /\ e.from \in Ids(j)
         /\ e.to \in Ids(j) \/ e.to \in NamesOf(j)
<1>1. Inputs(j, i) \subseteq Ids(j)
  <2>1. 1..(i - 1) \subseteq DOMAIN j
    BY KeptJourney
  <2>2. QED
    BY <2>1 DEF Inputs, Ids
<1>2. j[i].id \in Ids(j) /\ Names(j[i]) \subseteq NamesOf(j)
  BY DEF Ids, NamesOf
<1>3. QED
  BY <1>1, <1>2, EdgesAreEarned DEF EarnedBy

\* An id some entry bears resolves to a node, a name to itself.
LEMMA ResolvedIs ==
  ASSUME NEW j \in Seq(KeptEntry)
  PROVE  /\ \A id \in Ids(j) : Resolved(j, id) \in Places(j)
         /\ \A x \in NamesOf(j) : Resolved(j, x) = x
         /\ Places(j) \cap NamesOf(j) = {}
<1>1. ASSUME NEW id \in Ids(j)
      PROVE  Resolved(j, id) \in Places(j)
  <2> DEFINE T == {i \in DOMAIN j : j[i].id = id}
  <2>1. T \in SUBSET (0..Len(j)) /\ T # {} /\ Len(j) \in Nat
    BY KeptJourney DEF Ids
  <2>2. PICK x \in T : \A y \in T : y <= x
    <3> HIDE DEF T
    <3>1. QED
      BY <2>1, GreatestOf
  <2>3. Max(T) \in T
    <3> HIDE DEF T
    <3>1. \A y \in T : x >= y
      BY <2>1, <2>2
    <3>2. QED
      BY <3>1 DEF Max
  <2>4. <<id, Max(T)>> \in Places(j)
    BY <2>3 DEF Places
  <2>5. id \in EventId
    BY KeptJourney
  <2>6. QED
    BY <2>4, <2>5 DEF Resolved, At
<1>2. NamesOf(j) \subseteq AnyName
  BY NamesAre DEF NamesOf
<1>3. QED
  BY <1>1, <1>2, NamesAre DEF Resolved, Places

\* Every edge runs from a node to a node or to a name some node carries.
LEMMA EdgeEnds ==
  ASSUME NEW j \in Seq(KeptEntry), NEW e \in Edges(j)
  PROVE  e.from \in Places(j) /\ e.to \in Places(j) \cup NamesOf(j)
<1>1. PICK i \in DOMAIN j : \E p \in PlannedEdges(j, i) :
        e = [from |-> Resolved(j, p.from), to |-> Resolved(j, p.to)]
  BY DEF Edges
<1>2. PICK p \in PlannedEdges(j, i) :
        e = [from |-> Resolved(j, p.from), to |-> Resolved(j, p.to)]
  BY <1>1
<1>3. p.from \in Ids(j) /\ (p.to \in Ids(j) \/ p.to \in NamesOf(j))
  BY PlannedEnds
<1>4. QED
  BY <1>2, <1>3, ResolvedIs

CarriedBy(j) == [n \in Places(j) |-> Names(j[n[2]])]

\* A name some entry has is carried by its node.
LEMMA NamesAreCarried ==
  ASSUME NEW j \in Seq(KeptEntry), NEW x \in NamesOf(j)
  PROVE  \E n \in Places(j) : x \in CarriedBy(j)[n]
<1>1. PICK i \in DOMAIN j : x \in Names(j[i])
  BY DEF NamesOf
<1>2. <<j[i].id, i>> \in Places(j) /\ <<j[i].id, i>>[2] = i
  BY DEF Places
<1>3. QED
  BY <1>1, <1>2 DEF CarriedBy

Others(j, e) == [nodes |-> Places(j), edges |-> Edges(j) \ {e}]

\* S has where e leads and not where it comes from, and no other edge leads out of it.
Separates(j, e, S) ==
  /\ S \subseteq Places(j) \cup NamesOf(j)
  /\ e.to \in S /\ e.from \notin S
  /\ \A d \in Edges(j) : d.from \in S => d.to \in S

\* Nothing throws just if each edge has such a set.
LEMMA ThrowsNot ==
  ASSUME NEW j \in Seq(KeptEntry)
  PROVE  ~Materialize(j).threw <=> \A e \in Edges(j) : \E S : Separates(j, e, S)
<1> DEFINE All == Places(j) \cup NamesOf(j)
<1>1. ASSUME NEW e \in Edges(j)
      PROVE  G(j)!MayAddEdge(Others(j, e), e) <=> \E S : Separates(j, e, S)
  <2>1. /\ e.from \in Places(j) /\ e.to \in All
        /\ \A d \in Edges(j) : d.from \in Places(j) /\ d.to \in All
    BY EdgeEnds
  <2>2. Others(j, e).nodes = Places(j) /\ Others(j, e).edges = Edges(j) \ {e}
    BY DEF Others
  <2>3. \A x \in All : x \in Places(j) \/ x \in NamesOf(j)
    OBVIOUS
  <2>4. G(j)!TargetExists(Others(j, e), e)
    <3>1. CASE e.to \in Places(j)
      BY <2>2, <3>1 DEF G!TargetExists
    <3>2. CASE e.to \in NamesOf(j)
      BY <2>2, <3>2, NamesAreCarried DEF G!TargetExists, CarriedBy
    <3>3. QED
      BY <2>1, <3>1, <3>2
  <2>5. ASSUME NEW S, Separates(j, e, S)
        PROVE  G(j)!MayAddEdge(Others(j, e), e)
    <3>1. S \in SUBSET All /\ e.to \in S /\ e.from \notin S
      BY <2>5 DEF Separates
    <3>2. G(j)!Closed(Others(j, e), S)
      BY <2>2, <2>5 DEF G!Closed, Separates
    <3>3. ~G(j)!HasPath(Others(j, e), e.to, e.from)
      BY <3>1, <3>2 DEF G!HasPath, NamesOf
    <3>4. QED
      BY <2>1, <2>2, <2>4, <3>1, <3>3 DEF G!MayAddEdge
  <2>6. ASSUME G(j)!MayAddEdge(Others(j, e), e)
        PROVE  \E S : Separates(j, e, S)
    <3>1. ~G(j)!HasPath(Others(j, e), e.to, e.from)
      BY <2>6 DEF G!MayAddEdge
    <3>2. PICK S \in SUBSET All :
            e.to \in S /\ G(j)!Closed(Others(j, e), S) /\ e.from \notin S
      BY <3>1 DEF G!HasPath, NamesOf
    <3> DEFINE R == S \cup NamesOf(j)
    <3>3. Separates(j, e, R)
      <4>1. e.from \notin R
        BY <2>1, <3>2, ResolvedIs
      <4>2. ASSUME NEW d \in Edges(j), d.from \in R PROVE d.to \in R
        <5>1. d.from \in S
          BY <2>1, <4>2, ResolvedIs
        <5>2. d # e
          BY <3>2, <5>1
        <5>3. QED
          BY <2>1, <2>2, <3>2, <5>1, <5>2 DEF G!Closed
      <4>3. QED
        BY <3>2, <4>1, <4>2 DEF Separates
    <3>4. QED
      BY <3>3
  <2>7. QED
    BY <2>5, <2>6
<1>2. Materialize(j).threw <=> \E e \in Edges(j) : ~G(j)!MayAddEdge(Others(j, e), e)
  BY DEF Materialize, Others
<1>3. QED
  BY <1>1, <1>2

\* What is made without throwing is a graph as it should be.
LEMMA GraphIsSound ==
  ASSUME NEW j \in Seq(KeptEntry), ~Materialize(j).threw
  PROVE  G(j)!Acyclic(Materialize(j)) /\ G(j)!Grounded(Materialize(j))
<1> DEFINE g == Materialize(j)
<1>1. g.nodes = Places(j) /\ g.edges = Edges(j)
  BY DEF Materialize
<1> HIDE DEF g
<1>2. ASSUME NEW e \in Edges(j)
      PROVE  ~G(j)!HasPath(g, e.to, e.from) /\ e.from \in g.nodes /\ G(j)!TargetExists(g, e)
  <2>1. PICK S : Separates(j, e, S)
    BY ThrowsNot
  <2>2. S \in SUBSET (Places(j) \cup NamesOf(j)) /\ e.to \in S /\ e.from \notin S
    BY <2>1 DEF Separates
  <2>3. G(j)!Closed(g, S)
    BY <1>1, <2>1 DEF G!Closed, Separates
  <2>4. ~G(j)!HasPath(g, e.to, e.from)
    BY <2>2, <2>3 DEF G!HasPath, NamesOf
  <2>5. e.from \in Places(j) /\ (e.to \in Places(j) \/ e.to \in NamesOf(j))
    BY EdgeEnds
  <2>6. G(j)!TargetExists(g, e)
    BY <1>1, <2>5, NamesAreCarried DEF G!TargetExists, CarriedBy
  <2>7. QED
    BY <1>1, <2>4, <2>5, <2>6
<1>3. QED
  BY <1>1, <1>2 DEF G!Acyclic, G!Grounded, g

-----------------------------------------------------------------------------
(* One entry more *)

\* What an entry with an id of its own adds leaves what was planned as it was: all of
\* it leads out of the new node, or all of it into that.
LEMMA OneEntryMore ==
  ASSUME NEW s \in Seq(KeptEntry), NEW e \in KeptEntry, e.id \notin Ids(s)
  PROVE  LET t == Append(s, e)
             x == <<e.id, Len(s) + 1>>
         IN  /\ t \in Seq(KeptEntry)
             /\ Places(s) \subseteq Places(t) /\ NamesOf(s) \subseteq NamesOf(t)
             /\ x \in Places(t) \ Places(s)
             /\ Edges(s) \subseteq Edges(t)
             /\ \/ \A d \in Edges(t) \ Edges(s) :
                     d.from = x /\ d.to \in Places(s) \cup NamesOf(t)
                \/ \A d \in Edges(t) \ Edges(s) : d.to = x /\ d.from \in Places(s)
<1> DEFINE n == Len(s) + 1
           t == Append(s, e)
           x == <<e.id, n>>
           R(j, p) == [from |-> Resolved(j, p.from), to |-> Resolved(j, p.to)]
<1>1. /\ Len(s) \in Nat /\ DOMAIN s = 1..Len(s) /\ e.id \in EventId
      /\ t \in Seq(KeptEntry) /\ DOMAIN t = 1..n /\ t[n] = e
      /\ \A i \in DOMAIN s : t[i] = s[i]
  BY KeptJourney DEF KeptEntry
<1>2. DOMAIN t = DOMAIN s \cup {n} /\ n \notin DOMAIN s
  BY <1>1
<1> HIDE DEF t
<1>3. Ids(t) = Ids(s) \cup {e.id} /\ NamesOf(t) = NamesOf(s) \cup Names(e)
  BY <1>1, <1>2 DEF Ids, NamesOf
<1>4. Places(t) = Places(s) \cup {x} /\ x \notin Places(s)
  BY <1>1, <1>2 DEF Places
<1>5. \A i \in DOMAIN s : PlannedEdges(t, i) = PlannedEdges(s, i)
  <2> SUFFICES ASSUME NEW i \in DOMAIN s
               PROVE  PlannedEdges(t, i) = PlannedEdges(s, i)
    OBVIOUS
  <2>1. t[i] = s[i] /\ 1..(i - 1) \subseteq DOMAIN s
    BY <1>1
  <2>2. Inputs(t, i) = Inputs(s, i)
    BY <1>1, <2>1 DEF Inputs
  <2>3. QED
    BY <2>1, <2>2 DEF PlannedEdges
<1>6. \A id \in Ids(s) : Resolved(t, id) = Resolved(s, id)
  <2> SUFFICES ASSUME NEW id \in Ids(s)
               PROVE  Resolved(t, id) = Resolved(s, id)
    OBVIOUS
  <2>1. {i \in DOMAIN t : t[i].id = id} = {i \in DOMAIN s : s[i].id = id}
    BY <1>1, <1>2
  <2>2. QED
    BY <2>1 DEF Resolved, At
<1>7. Resolved(t, e.id) = x
  <2>1. {i \in DOMAIN t : t[i].id = e.id} = {n}
    BY <1>1, <1>2 DEF Ids
  <2>2. Max({n}) = n
    <3>1. n >= n
      BY <1>1
    <3>2. QED
      BY <3>1 DEF Max
  <2>3. QED
    BY <1>1, <2>1, <2>2 DEF Resolved, At
<1>8. \A i \in DOMAIN s : \A p \in PlannedEdges(s, i) : R(t, p) = R(s, p)
  <2> SUFFICES ASSUME NEW i \in DOMAIN s, NEW p \in PlannedEdges(s, i)
               PROVE  R(t, p) = R(s, p)
    OBVIOUS
  <2>1. p.from \in Ids(s) /\ (p.to \in Ids(s) \/ p.to \in NamesOf(s))
    BY PlannedEnds
  <2>2. p.to \in NamesOf(s) => Resolved(t, p.to) = p.to /\ Resolved(s, p.to) = p.to
    BY <1>1, <1>3, ResolvedIs
  <2>3. Resolved(t, p.from) = Resolved(s, p.from) /\ Resolved(t, p.to) = Resolved(s, p.to)
    BY <1>6, <2>1, <2>2
  <2>4. QED
    BY <2>3
<1>9. \A j, d : d \in Edges(j) <=> \E i \in DOMAIN j : \E p \in PlannedEdges(j, i) : d = R(j, p)
  BY DEF Edges
<1>10. Edges(s) \subseteq Edges(t)
  <2> SUFFICES ASSUME NEW d \in Edges(s) PROVE d \in Edges(t)
    OBVIOUS
  <2>1. PICK i \in DOMAIN s : \E p \in PlannedEdges(s, i) : d = R(s, p)
    BY <1>9
  <2>2. PICK p \in PlannedEdges(s, i) : d = R(s, p)
    BY <2>1
  <2>3. i \in DOMAIN t /\ p \in PlannedEdges(t, i) /\ d = R(t, p)
    BY <1>2, <1>5, <1>8, <2>2
  <2> HIDE DEF R
  <2>4. QED
    BY <1>9, <2>3
<1>11. ASSUME NEW d \in Edges(t) \ Edges(s)
       PROVE  \E p \in PlannedEdges(t, n) : d = R(t, p)
  <2>1. PICK i \in DOMAIN t : \E p \in PlannedEdges(t, i) : d = R(t, p)
    BY <1>9
  <2>2. PICK p \in PlannedEdges(t, i) : d = R(t, p)
    BY <2>1
  <2>3. i \notin DOMAIN s
    <3>1. SUFFICES ASSUME i \in DOMAIN s PROVE FALSE
      OBVIOUS
    <3>2. p \in PlannedEdges(s, i) /\ d = R(s, p)
      BY <1>5, <1>8, <2>2, <3>1
    <3> HIDE DEF R
    <3>3. d \in Edges(s)
      BY <1>9, <3>1, <3>2
    <3>4. QED
      BY <3>3
  <2> HIDE DEF R
  <2>4. QED
    BY <1>2, <2>2, <2>3
<1>12. Inputs(t, n) \subseteq Ids(s)
  BY <1>1 DEF Inputs, Ids
<1>13. \A id \in Ids(s) : Resolved(t, id) \in Places(s)
  BY <1>6, ResolvedIs
<1>14. \A z \in Names(e) : Resolved(t, z) = z
  BY <1>1, <1>3, ResolvedIs
<1>15. CASE e.kind # "showcase"
  <2>1. ASSUME NEW d \in Edges(t) \ Edges(s)
        PROVE  d.from = x /\ d.to \in Places(s) \cup NamesOf(t)
    <3>1. PICK p \in PlannedEdges(t, n) : d = R(t, p)
      BY <1>11
    <3>2. p.from = e.id /\ (p.to \in Names(e) \/ p.to \in Inputs(t, n))
      BY <1>1, <1>15, EdgesAreEarned DEF EarnedBy
    <3>3. d.from = x /\ (d.to \in Names(e) \/ d.to \in Places(s))
      BY <1>7, <1>12, <1>13, <1>14, <3>1, <3>2
    <3>4. QED
      BY <1>3, <3>3
  <2>2. QED
    BY <1>1, <1>3, <1>4, <1>10, <2>1 DEF t
<1>16. CASE e.kind = "showcase"
  <2>1. ASSUME NEW d \in Edges(t) \ Edges(s)
        PROVE  d.to = x /\ d.from \in Places(s)
    <3>1. PICK p \in PlannedEdges(t, n) : d = R(t, p)
      BY <1>11
    <3>2. p.to = e.id /\ p.from \in Inputs(t, n)
      BY <1>1, <1>16, EdgesAreEarned DEF EarnedBy
    <3>3. QED
      BY <1>7, <1>12, <1>13, <3>1, <3>2
  <2>2. QED
    BY <1>1, <1>3, <1>4, <1>10, <2>1 DEF t
<1>17. QED
  BY <1>15, <1>16

\* And so it closes no cycle.
LEMMA IntactIsKept ==
  ASSUME NEW s \in Seq(KeptEntry), ~Materialize(s).threw,
         NEW e \in KeptEntry, e.id \notin Ids(s)
  PROVE  ~Materialize(Append(s, e)).threw
<1> DEFINE t == Append(s, e)
           x == <<e.id, Len(s) + 1>>
<1>1. /\ t \in Seq(KeptEntry)
      /\ Places(s) \subseteq Places(t) /\ NamesOf(s) \subseteq NamesOf(t)
      /\ x \in Places(t) /\ x \notin Places(s) /\ Edges(s) \subseteq Edges(t)
      /\ \/ \A d \in Edges(t) \ Edges(s) : d.from = x /\ d.to \in Places(s) \cup NamesOf(t)
         \/ \A d \in Edges(t) \ Edges(s) : d.to = x /\ d.from \in Places(s)
  BY OneEntryMore
<1> HIDE DEF t
<1>2. x \notin NamesOf(t) /\ Places(t) \cap NamesOf(t) = {}
  BY <1>1, ResolvedIs
<1> HIDE DEF x
<1>3. \A d \in Edges(s) : d.from \in Places(s) /\ d.to \in Places(s) \cup NamesOf(s)
  BY EdgeEnds
<1>4. SUFFICES ASSUME NEW d \in Edges(t) PROVE \E S : Separates(t, d, S)
  BY <1>1, ThrowsNot DEF t
<1>5. CASE \A f \in Edges(t) \ Edges(s) : f.from = x /\ f.to \in Places(s) \cup NamesOf(t)
  <2>1. CASE d \in Edges(s)
    <3>1. PICK S : Separates(s, d, S)
      BY <2>1, ThrowsNot
    <3>2. x \notin S
      BY <1>1, <1>2, <3>1 DEF Separates
    <3>3. Separates(t, d, S)
      BY <1>1, <1>5, <3>1, <3>2 DEF Separates
    <3>4. QED
      BY <3>3
  <2>2. CASE d \notin Edges(s)
    <3> DEFINE S == Places(s) \cup NamesOf(t)
    <3>1. x \notin S
      BY <1>1, <1>2
    <3>2. Separates(t, d, S)
      BY <1>1, <1>3, <1>5, <2>2, <3>1 DEF Separates
    <3>3. QED
      BY <3>2
  <2>3. QED
    BY <2>1, <2>2
<1>6. CASE \A f \in Edges(t) \ Edges(s) : f.to = x /\ f.from \in Places(s)
  <2>1. CASE d \in Edges(s)
    <3>1. PICK S : Separates(s, d, S)
      BY <2>1, ThrowsNot
    <3> DEFINE R == S \cup {x}
    <3>2. Separates(t, d, R)
      BY <1>1, <1>3, <1>6, <2>1, <3>1 DEF Separates
    <3>3. QED
      BY <3>2
  <2>2. CASE d \notin Edges(s)
    <3>1. Separates(t, d, {x})
      BY <1>1, <1>3, <1>6, <2>2 DEF Separates
    <3>2. QED
      BY <3>1
  <2>3. QED
    BY <2>1, <2>2
<1>7. QED
  BY <1>1, <1>5, <1>6

-----------------------------------------------------------------------------
(* What of a journey is kept *)

\* Journeys of kept entries that are made without throwing.
MadeWhole == {s \in Seq(KeptEntry) : ~Materialize(s).threw}

LEMMA NothingIsKept == <<>> \in MadeWhole
<1>1. <<>> \in Seq(KeptEntry) /\ Edges(<<>>) = {}
  BY DEF Edges
<1>2. QED
  BY <1>1, ThrowsNot DEF MadeWhole

LEMMA KeptStaysKept ==
  ASSUME NEW s \in MadeWhole, NEW e \in JourneyEntry
  PROVE  KeptSafe(s, e) \in MadeWhole
<1>1. CASE e.kind \in WorkEventKind /\ e.refs # Toxic /\ ~Materialize(Append(s, e)).threw
  <2>1. e \in KeptEntry /\ s \in Seq(KeptEntry)
    BY <1>1 DEF JourneyEntry, KeptEntry, MadeWhole
  <2>2. Append(s, e) \in Seq(KeptEntry)
    BY <2>1
  <2>3. QED
    BY <1>1, <2>2 DEF KeptSafe, MadeWhole
<1>2. QED
  BY <1>1 DEF KeptSafe

IsSafe(j, f) == f = [i \in 0..Len(j) |-> IF i = 0 THEN <<>> ELSE KeptSafe(f[i - 1], j[i])]

LEMMA SafeExists ==
  ASSUME NEW j \in Seq(JourneyEntry)
  PROVE  \E f : IsSafe(j, f)
<1> DEFINE N == Len(j)
           step == [i \in 1..N |-> [s \in MadeWhole |-> KeptSafe(s, j[i])]]
<1>1. N \in Nat /\ \A i \in 1..N : j[i] \in JourneyEntry
  OBVIOUS
<1>2. \A i \in 1..N, s \in MadeWhole : KeptSafe(s, j[i]) \in MadeWhole
  BY <1>1, KeptStaysKept
<1>3. step \in [1..N -> [MadeWhole -> MadeWhole]] /\ \A i \in 1..N, s \in MadeWhole : step[i][s] = KeptSafe(s, j[i])
  BY <1>2
<1> HIDE DEF step
<1>4. PICK f \in [0..N -> MadeWhole] : IsIteration(N, <<>>, step, f)
  BY <1>1, <1>3, NothingIsKept, IterationExists
<1>5. ASSUME NEW i \in 0..N
      PROVE  f[i] = IF i = 0 THEN <<>> ELSE KeptSafe(f[i - 1], j[i])
  <2>1. CASE i = 0
    BY <1>4, <2>1 DEF IsIteration
  <2>2. CASE i # 0
    <3>1. i \in 1..N /\ f[i - 1] \in MadeWhole
      BY <1>1, <1>4, <2>2
    <3>2. QED
      BY <1>3, <1>4, <2>2, <3>1 DEF IsIteration
  <2>3. QED
    BY <2>1, <2>2
<1>6. IsSafe(j, f)
  BY <1>4, <1>5 DEF IsSafe
<1>7. QED
  BY <1>6

\* After i entries the same is kept of j as of any journey that goes on from it.
LEMMA StagesAgree ==
  ASSUME NEW j \in Seq(JourneyEntry), NEW f, IsSafe(j, f),
         NEW k \in Seq(JourneyEntry), NEW h, IsSafe(k, h),
         Len(j) <= Len(k), \A i \in DOMAIN j : k[i] = j[i]
  PROVE  \A i \in 0..Len(j) : f[i] \in MadeWhole /\ h[i] = f[i]
<1> DEFINE N == Len(j)
           T == {i \in 0..N : f[i] \in MadeWhole /\ h[i] = f[i]}
<1>1. N \in Nat /\ Len(k) \in Nat /\ N <= Len(k) /\ DOMAIN j = 1..N
      /\ \A i \in 1..N : j[i] \in JourneyEntry /\ k[i] = j[i]
  OBVIOUS
<1>2. \A i \in 0..N : /\ f[i] = IF i = 0 THEN <<>> ELSE KeptSafe(f[i - 1], j[i])
                      /\ h[i] = IF i = 0 THEN <<>> ELSE KeptSafe(h[i - 1], k[i])
  <2>1. 0..N \subseteq 0..Len(k)
    BY <1>1
  <2>2. \A i \in 0..N : f[i] = IF i = 0 THEN <<>> ELSE KeptSafe(f[i - 1], j[i])
    BY DEF IsSafe
  <2>3. \A i \in 0..Len(k) : h[i] = IF i = 0 THEN <<>> ELSE KeptSafe(h[i - 1], k[i])
    BY DEF IsSafe
  <2>4. QED
    BY <2>1, <2>2, <2>3
<1> HIDE DEF N
<1>3. 0 \in T
  <2>1. 0 \in 0..N /\ f[0] = <<>> /\ h[0] = <<>>
    <3> HIDE DEF T
    <3>1. QED
      BY <1>1, <1>2
  <2>2. QED
    BY <2>1, NothingIsKept
<1>4. ASSUME NEW i \in 0..(N - 1), i \in T PROVE i + 1 \in T
  <2>1. i + 1 \in 0..N /\ i + 1 \in 1..N /\ i + 1 # 0 /\ (i + 1) - 1 = i
    BY <1>1
  <2>2. f[i + 1] = KeptSafe(f[i], j[i + 1]) /\ h[i + 1] = KeptSafe(h[i], k[i + 1])
    <3> HIDE DEF T
    <3>1. QED
      BY <1>2, <2>1
  <2>3. QED
    BY <1>1, <1>4, <2>1, <2>2, KeptStaysKept
<1>5. 0..N \subseteq T
  <2> HIDE DEF T
  <2>1. QED
    BY <1>1, <1>3, <1>4, BoundedSetInduction
<1>6. QED
  BY <1>5 DEF N

LEMMA SafeIs ==
  ASSUME NEW j \in Seq(JourneyEntry)
  PROVE  LET f == CHOOSE g : IsSafe(j, g) IN IsSafe(j, f) /\ Safe(j) = f[Len(j)]
BY SafeExists DEF Safe, IsSafe

LEMMA SafeIsKept ==
  ASSUME NEW j \in Seq(JourneyEntry)
  PROVE  Safe(j) \in MadeWhole
<1>1. PICK f : IsSafe(j, f) /\ Safe(j) = f[Len(j)]
  BY SafeIs
<1>2. Len(j) \in 0..Len(j)
  OBVIOUS
<1>3. QED
  BY <1>1, <1>2, StagesAgree

LEMMA SafeOfOneMore ==
  ASSUME NEW j \in Seq(JourneyEntry), NEW e \in JourneyEntry
  PROVE  Safe(Append(j, e)) = KeptSafe(Safe(j), e)
<1> DEFINE k == Append(j, e)
           n == Len(j) + 1
<1>1. /\ k \in Seq(JourneyEntry) /\ Len(k) = n /\ n \in Nat /\ k[n] = e
      /\ Len(j) <= n /\ Len(j) \in Nat /\ \A i \in DOMAIN j : k[i] = j[i]
  OBVIOUS
<1> HIDE DEF k
<1>2. PICK f : IsSafe(j, f) /\ Safe(j) = f[Len(j)]
  BY SafeIs
<1>3. PICK h : IsSafe(k, h) /\ Safe(k) = h[n]
  BY <1>1, SafeIs
<1>4. h[Len(j)] = f[Len(j)]
  <2>1. Len(j) \in 0..Len(j)
    BY <1>1
  <2>2. QED
    BY <1>1, <1>2, <1>3, <2>1, StagesAgree
<1>5. h[n] = KeptSafe(h[n - 1], k[n])
  <2>1. n \in 0..Len(k) /\ n # 0
    BY <1>1
  <2>2. QED
    BY <1>3, <2>1 DEF IsSafe
<1>6. n - 1 = Len(j)
  BY <1>1
<1>7. QED
  BY <1>1, <1>2, <1>3, <1>4, <1>5, <1>6 DEF k

-----------------------------------------------------------------------------
(* The journey *)

LEMMA SinkTypeStarts == SinkInit => SinkTypeOK
BY SinkAssumption DEF SinkInit, SinkTypeOK

LEMMA StepKeepsSinkTypes ==
  ASSUME SinkTypeOK, [SinkNext]_journey
  PROVE  SinkTypeOK'
<1> DEFINE Whatever == JourneyEntry \cup {NullEvent}
<1>1. ASSUME NEW e \in Whatever, Grow(e)
      PROVE  SinkTypeOK'
  <2> HIDE DEF Whatever
  <2>1. journey \in Seq(Whatever) /\ Len(journey) < MaxJourney /\ journey' = Append(journey, e)
    BY <1>1 DEF SinkTypeOK, Grow, Whatever
  <2>2. journey' \in Seq(Whatever) /\ Len(journey') = Len(journey) + 1 /\ Len(journey) \in Nat
    BY <2>1
  <2>3. Len(journey') <= MaxJourney
    BY <2>1, <2>2, SinkAssumption
  <2>4. QED
    BY <2>2, <2>3 DEF SinkTypeOK, Whatever
<1>2. ASSUME NEW e \in [id : EventId, kind : WorkEventKind \cup {UnknownKind}, stuck : {FALSE},
                        refs : BoundedSeq(EventId, MaxRefs) \cup {Toxic}]
      PROVE  e \in Whatever
  <2>1. BoundedSeq(EventId, MaxRefs) \subseteq Seq(EventId)
    <3>1. SUFFICES ASSUME NEW r \in UNION {[1..m -> EventId] : m \in 0..MaxRefs}
                   PROVE  r \in Seq(EventId)
      BY DEF BoundedSeq, SeqOf
    <3>2. PICK m \in 0..MaxRefs : r \in [1..m -> EventId]
      OBVIOUS
    <3>3. QED
      BY <3>2, SinkAssumption
  <2>2. QED
    BY <2>1 DEF JourneyEntry
<1>3. NullEvent \in Whatever
  OBVIOUS
<1>4. CASE UNCHANGED journey
  BY <1>4 DEF SinkTypeOK
<1>5. QED
  <2> HIDE DEF Whatever
  <2>1. QED
    BY <1>1, <1>2, <1>3, <1>4 DEF SinkNext

LEMMA SinkAlways == SinkSpec => []SinkTypeOK
BY SinkTypeStarts, StepKeepsSinkTypes, PTL DEF SinkSpec

\* Whatever malformed entries a journey holds, short of null, however long it gets
\* and whatever ids its entries bear and refer to: record throws nothing, its graph is
\* acyclic and grounded, and no intact entry with an id of its own is dropped.
THEOREM IntactStaysIntact == SinkSpec => []IntactEntriesKept
<1>1. ASSUME SinkTypeOK PROVE IntactEntriesKept
  <2>1. SUFFICES ASSUME NullEvent \notin ToSet(journey) PROVE IntactEntriesKept
    BY DEF IntactEntriesKept
  <2>2. journey \in Seq(JourneyEntry)
    BY <1>1, <2>1 DEF SinkTypeOK, ToSet
  <2>3. Safe(journey) \in Seq(KeptEntry) /\ ~Materialize(Safe(journey)).threw
    BY <2>2, SafeIsKept DEF MadeWhole
  <2>4. LET graph == Record(journey)
        IN  /\ ~graph.threw
            /\ G(Safe(journey))!Acyclic(graph) /\ G(Safe(journey))!Grounded(graph)
    <3>1. Record(journey) = Materialize(Safe(journey))
      BY <2>1 DEF Record
    <3>2. QED
      BY <2>3, <3>1, GraphIsSound
  <2>5. ASSUME journey # <<>>, Intact(Last(journey)),
               \A k \in DOMAIN Safe(Front(journey)) : Safe(Front(journey))[k].id # Last(journey).id
        PROVE  Safe(journey) = Append(Safe(Front(journey)), Last(journey))
    <3> DEFINE front == Front(journey)
               e == Last(journey)
    <3>1. front \in Seq(JourneyEntry) /\ e \in JourneyEntry /\ journey = Append(front, e)
      BY <2>2, <2>5 DEF Front, Last
    <3> HIDE DEF front, e
    <3>2. Safe(journey) = KeptSafe(Safe(front), e)
      BY <3>1, SafeOfOneMore
    <3>3. Safe(front) \in Seq(KeptEntry) /\ ~Materialize(Safe(front)).threw
      BY <3>1, SafeIsKept DEF MadeWhole
    <3>4. e \in KeptEntry /\ e.kind \in WorkEventKind /\ e.refs # Toxic
      BY <2>5, <3>1 DEF Intact, JourneyEntry, KeptEntry, e
    <3>5. e.id \notin Ids(Safe(front))
      BY <2>5 DEF Ids, front, e
    <3>6. ~Materialize(Append(Safe(front), e)).threw
      BY <3>3, <3>4, <3>5, IntactIsKept
    <3>7. QED
      BY <3>2, <3>4, <3>6 DEF KeptSafe, front, e
  <2>6. QED
    BY <2>4, <2>5 DEF IntactEntriesKept
<1>2. QED
  BY <1>1, SinkAlways, PTL

(***************************************************************************)
(* The sum of the parts                                                    *)
(***************************************************************************)

\* What each part keeps, beside its types, to keep its types.
PartsInv ==
  /\ DeskTypeOK /\ ReviewTypeOK /\ ConciergeTypeOK /\ HoldoutTypeOK /\ ConsentTypeOK
  /\ DefenseTypeOK /\ BestOfTurns /\ ProbesCounted
  /\ SignalsTypeOK /\ InDayOrder
  /\ StudioInv
  /\ SinkTypeOK

LEMMA PartsStart == PartsInit => PartsInv
BY DeskTypeStarts, ReviewTypeStarts, ConciergeTypeStarts, HoldoutTypeStarts, ConsentTypeStarts,
   DefenseStarts, SignalsStart, StudioStarts, SinkTypeStarts DEF PartsInit, PartsInv

\* One part steps and the others rest.
LEMMA PartsMove ==
  ASSUME [PartsNext]_parts
  PROVE  /\ [DeskNext]_desk /\ [ReviewNext]_review /\ [ConciergeNext]_concierge
         /\ [HoldoutNext]_holdout /\ [ConsentNext]_consents /\ [DefenseNext]_defense
         /\ [SignalsNext]_signals /\ [StudioNext]_studio /\ [SinkNext]_journey
BY DEF PartsNext, parts

LEMMA PartsKept ==
  ASSUME PartsInv, [PartsNext]_parts
  PROVE  PartsInv'
<1>1. /\ [DeskNext]_desk /\ [ReviewNext]_review /\ [ConciergeNext]_concierge
      /\ [HoldoutNext]_holdout /\ [ConsentNext]_consents /\ [DefenseNext]_defense
      /\ [SignalsNext]_signals /\ [StudioNext]_studio /\ [SinkNext]_journey
  BY PartsMove
<1>2. DeskTypeOK' /\ ReviewTypeOK' /\ ConciergeTypeOK'
  BY <1>1, StepKeepsDeskTypes, StepKeepsReviewTypes, StepKeepsConciergeTypes DEF PartsInv
<1>3. HoldoutTypeOK' /\ ConsentTypeOK'
  BY <1>1, StepKeepsHoldoutTypes, StepKeepsConsentTypes DEF PartsInv
<1>4. DefenseTypeOK' /\ BestOfTurns' /\ ProbesCounted'
  BY <1>1, DefenseKept DEF PartsInv
<1>5. SignalsTypeOK' /\ InDayOrder'
  BY <1>1, SignalsKept DEF PartsInv
<1>6. StudioInv'
  BY <1>1, StudioStep DEF PartsInv
<1>7. SinkTypeOK'
  BY <1>1, StepKeepsSinkTypes DEF PartsInv
<1>8. QED
  BY <1>2, <1>3, <1>4, <1>5, <1>6, <1>7 DEF PartsInv

\* The type invariant of the parts together: a step of one leaves the others typed.
THEOREM PartsTypeCorrect == PartsSpec => []PartsTypeOK
<1>1. PartsInv => PartsTypeOK
  BY DEF PartsInv, PartsTypeOK, StudioInv
<1>2. QED
  BY <1>1, PartsStart, PartsKept, PTL DEF PartsSpec

\* The sum adds nothing to its parts: each runs in it as it runs alone, so what is
\* proved of one alone holds of the sum.
THEOREM PartsRunAlone ==
  PartsSpec =>
    /\ Spec /\ DeskSpec /\ DefenseSpec /\ ReviewSpec /\ ConciergeSpec
    /\ HoldoutSpec /\ SignalsSpec /\ ConsentSpec /\ StudioSpec /\ SinkSpec
<1>1. PartsInit => /\ Init /\ DeskInit /\ DefenseInit /\ ReviewInit /\ ConciergeInit
                   /\ HoldoutInit /\ SignalsInit /\ ConsentInit /\ StudioInit
                   /\ SinkInit
  BY DEF PartsInit
<1>2. [PartsNext]_parts =>
        /\ [Next]_vars /\ [DeskNext]_desk /\ [DefenseNext]_defense /\ [ReviewNext]_review
        /\ [ConciergeNext]_concierge /\ [HoldoutNext]_holdout /\ [SignalsNext]_signals
        /\ [ConsentNext]_consents /\ [StudioNext]_studio /\ [SinkNext]_journey
  BY DEF PartsNext, parts
<1>3. QED
  BY <1>1, <1>2, PTL
     DEF PartsSpec, Spec, DeskSpec, DefenseSpec, ReviewSpec, ConciergeSpec, HoldoutSpec,
         SignalsSpec, ConsentSpec, StudioSpec, SinkSpec
=============================================================================
