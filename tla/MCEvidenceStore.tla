-------------------------- MODULE MCEvidenceStore --------------------------
(* Small instances of EvidenceStore for TLC. *)
EXTENDS EvidenceStore

CONSTANTS artifact, review, claim, author

MCNode == {artifact, review, claim}
MCName == {author}
MCCarries == [n \in MCNode |-> IF n = claim THEN {author} ELSE {}]
MCEdge == {[from |-> artifact, to |-> review], [from |-> review, to |-> artifact],
           [from |-> review, to |-> claim], [from |-> claim, to |-> artifact],
           [from |-> review, to |-> author]}
MCSeed == [nodes |-> {artifact, review}, edges |-> {}]
=============================================================================
