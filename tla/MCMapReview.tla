---------------------------- MODULE MCMapReview ----------------------------
(* Small instances of MapReview for TLC. *)
EXTENDS MapReview

Proposed(requires, floor, blank) ==
  [requires |-> requires, floor |-> floor,
   text |-> [m \in Milestone |-> [f \in Field |->
               IF f = "capability" /\ m \in blank THEN {} ELSE Word]],
   sound |-> TRUE, fresh |-> TRUE]

Chain == <<{2}, {3}, {}>>
Fork  == <<{}, {1}, {1}>>

\* Maps of three milestones: one sound, one with a sentence to correct whose
\* resources are too old, and one for each check of the graph that may fail.
MapProposals ==
  {Proposed(Chain, <<3, 2, 1>>, {}),
   [Proposed(Fork, <<2, 2, 3>>, {2}) EXCEPT !.fresh = FALSE],
   Proposed(Chain, <<1, 2, 1>>, {}),
   Proposed(<<{2}, {1}, {}>>, <<1, 1, 1>>, {}),
   Proposed(<<{}, {0}, {}>>, <<1, 1, 1>>, {})}
=============================================================================
