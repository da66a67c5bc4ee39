--------------------------- MODULE MCSignalIngest ---------------------------
(* Small instances of SignalIngest for TLC. *)
EXTENDS SignalIngest, TLC

Symmetry == Permutations(Page) \cup Permutations(Record) \cup Permutations(Req)
=============================================================================
