---------------------------- MODULE MCAccessDesk ----------------------------
(* Small instances of AccessDesk for TLC. *)
EXTENDS AccessDesk

ShortTerms == [k \in 2..4 |-> k - 1]
DeskKinds  == [m \in Match |-> IF m = "m-primary" THEN "mentor" ELSE "audience"]
DeskSeeds  == {"EMERGING", "CANDIDATE"}

\* Four days of a synthetic child who began by itself and then did, each day,
\* nothing, came back, went deeper, made something, or came when asked.
PilotPlay ==
  {<<[play |-> "voluntary", depth |-> "none"]>> \o s :
     s \in [1..3 -> {d \in Day : d.play = "prompted" => d.depth = "none"}]}
=============================================================================
