------------------------------ MODULE MCParts ------------------------------
(***************************************************************************)
(* The parts of the system that share no state with one another, each on a *)
(* small instance of its own: TLC explores their sum, one part from each   *)
(* initial state, and never their product.  While one part runs the others *)
(* rest, so what is true of it here is true of it alone.                   *)
(***************************************************************************)
EXTENDS HypothesisStore, MCAccessDesk, SocraticDefense, MCMapReview, Concierge, Holdout,
        SignalRead, ConsentRecords, Studio, EvidenceSink

VARIABLE part

Part == {"hypotheses", "desk", "defense", "review", "concierge", "holdout",
         "signals", "consents", "studio", "sink"}

PartsInit ==
  /\ part \in Part
  /\ Init /\ DeskInit /\ DefenseInit /\ ReviewInit /\ ConciergeInit /\ HoldoutInit
  /\ SignalsInit /\ ConsentInit /\ StudioInit /\ SinkInit

PartsNext ==
  /\ UNCHANGED part
  /\ \/ part = "hypotheses" /\ Next
        /\ UNCHANGED <<desk, defense, review, concierge, holdout, signals, consents, studio, journey>>
     \/ part = "desk" /\ DeskNext
        /\ UNCHANGED <<vars, defense, review, concierge, holdout, signals, consents, studio, journey>>
     \/ part = "defense" /\ DefenseNext
        /\ UNCHANGED <<vars, desk, review, concierge, holdout, signals, consents, studio, journey>>
     \/ part = "review" /\ ReviewNext
        /\ UNCHANGED <<vars, desk, defense, concierge, holdout, signals, consents, studio, journey>>
     \/ part = "concierge" /\ ConciergeNext
        /\ UNCHANGED <<vars, desk, defense, review, holdout, signals, consents, studio, journey>>
     \/ part = "holdout" /\ HoldoutNext
        /\ UNCHANGED <<vars, desk, defense, review, concierge, signals, consents, studio, journey>>
     \/ part = "signals" /\ SignalsNext
        /\ UNCHANGED <<vars, desk, defense, review, concierge, holdout, consents, studio, journey>>
     \/ part = "consents" /\ ConsentNext
        /\ UNCHANGED <<vars, desk, defense, review, concierge, holdout, signals, studio, journey>>
     \/ part = "studio" /\ StudioNext
        /\ UNCHANGED <<vars, desk, defense, review, concierge, holdout, signals, consents, journey>>
     \/ part = "sink" /\ SinkNext
        /\ UNCHANGED <<vars, desk, defense, review, concierge, holdout, signals, consents, studio>>

parts ==
  <<part, vars, desk, defense, review, concierge, holdout, signals, consents, studio, journey>>

PartsSpec == PartsInit /\ [][PartsNext]_parts /\ DefenseFairness

\* The type invariants of the parts beside the hypotheses.
PartsTypeOK ==
  /\ DeskTypeOK /\ DefenseTypeOK /\ ReviewTypeOK /\ ConciergeTypeOK /\ HoldoutTypeOK
  /\ SignalsTypeOK /\ ConsentTypeOK /\ StudioTypeOK /\ SinkTypeOK

-----------------------------------------------------------------------------
(* Values of the constants *)

Tiers      == [c \in Child |-> IF c = "young" THEN "t6-8" ELSE "t9-12"]
Titles     == [p \in Page |-> IF p = "titled" THEN "chess" ELSE NoTopic]
TierSafe   == [t \in Tier |-> IF t = "t6-8" THEN {"bare"} ELSE {"titled", "bare"}]
OneCurated == {[page |-> "bare", topic |-> "chess", tiers |-> {"t9-12"}]}

\* Two gadgets of one cabin with a way of working in common, and a link.
OneCabin   == [a \in Artifact |-> "music"]
Affordance == [a \in Artifact |-> CASE a = "drums" -> {"build", "investigate"}
                                   [] a = "scope" -> {"investigate"}
                                   [] a = "video" -> {"build"}]
VerbModes  == [v \in Verb |-> IF v = "open" THEN <<>> ELSE <<"build", "investigate">>]
\* The page of the first visit stays open until after the second.
VisitSpan  == [v \in Visit |-> IF v = "long" THEN {1, 5} ELSE {3, 4}]
\* The arcade comes with a journey of its own.
OneSeed    == [p \in {"arcade"} |->
                <<[id |-> <<p, 0>>, kind |-> "reflection", stuck |-> FALSE, refs |-> <<>>]>>]
FormKinds  == {{"measurement"}, {"measurement", "review"}}
=============================================================================
