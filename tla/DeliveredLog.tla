---------------------------- MODULE DeliveredLog ----------------------------
(***************************************************************************)
(* What the road from the game to the guide's store promises, without      *)
(* pages, requests or files: every record emitted may become stored, what  *)
(* is stored was emitted and stays stored, and what the sender believes    *)
(* acknowledged is stored.                                                 *)
(***************************************************************************)
CONSTANTS Kind, Record

VARIABLES emitted, stored, acked

vars == <<emitted, stored, acked>>

Init ==
  /\ emitted = [k \in Kind |-> {}]
  /\ stored = [k \in Kind |-> {}]
  /\ acked = [k \in Kind |-> {}]

Emit(k, x) ==
  /\ emitted' = [emitted EXCEPT ![k] = @ \cup {x}]
  /\ UNCHANGED <<stored, acked>>

\* A batch lands: the store grows, by emitted records only.
Store ==
  /\ stored' \in [Kind -> SUBSET Record]
  /\ \A k \in Kind : stored[k] \subseteq stored'[k] /\ stored'[k] \subseteq emitted[k]
  /\ UNCHANGED <<emitted, acked>>

\* The sender's belief moves.  It may move back, when an older answer comes
\* last; it never covers what is not stored.
Ack ==
  /\ acked' \in [Kind -> SUBSET Record]
  /\ \A k \in Kind : acked'[k] \subseteq stored[k]
  /\ UNCHANGED <<emitted, stored>>

Next == (\E k \in Kind, x \in Record : Emit(k, x)) \/ Store \/ Ack

Spec == Init /\ [][Next]_vars
=============================================================================
