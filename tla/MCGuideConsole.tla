--------------------------- MODULE MCGuideConsole ---------------------------
(* Small instances of GuideConsole for TLC. *)
EXTENDS GuideConsole

\* An interest that shows and fades.
Tides == {[confident |-> TRUE, high |-> TRUE], [confident |-> FALSE, high |-> FALSE]}
=============================================================================
