------------------------ MODULE SignalIngest_proofs ------------------------
(***************************************************************************)
(* What holds of the road from the game to the store for every number of   *)
(* pages, records and requests in flight; of the types, of consent and of  *)
(* the logs kept single, for every number of handlers and restarts, and of *)
(* delivery, while handlers run one at a time and the console stays up.    *)
(***************************************************************************)
EXTENDS SignalIngest, FiniteSetTheorems, TLAPS

-----------------------------------------------------------------------------
(* Types *)

LEMMA PendingType ==
  ASSUME TypeOK, NEW k \in Kind, NEW x
  PROVE  Pending(k, x) \in Nat
<1> DEFINE S == {i \in (mark[k] + 1)..Len(log[k]) : log[k][i] = x}
<1>1. mark[k] + 1 \in Int /\ Len(log[k]) \in Int
  BY DEF TypeOK
<1>2. IsFiniteSet((mark[k] + 1)..Len(log[k]))
  BY <1>1, FS_Interval
<1>3. IsFiniteSet(S)
  BY <1>2, FS_Subset
<1>4. Cardinality(S) \in Nat
  BY <1>3, FS_CardinalityType
<1>5. QED
  BY <1>4 DEF Pending

LEMMA NoCopiesType == NoCopies \in Copies /\ NoLength \in [Kind -> Nat]
BY DEF NoCopies, Copies, NoLength

LEMMA IngestType ==
  ASSUME NEW profile \in Copies, NEW b \in Copies
  PROVE  Ingest(profile, b) \in Copies
BY DEF Ingest, Unseen, Copies

LEMMA StepKeepsTypeOK ==
  ASSUME TypeOK, [Next]_vars
  PROVE  TypeOK'
<1> USE NoReqAssumption, NoCopiesType DEF TypeOK, Stage, Running
<1>1. ASSUME NEW x \in Record, RecordInteraction(x) PROVE TypeOK'
  BY <1>1 DEF RecordInteraction, Kind, server, file
<1>2. ASSUME NEW x \in Record, RecordSurfaced(x) PROVE TypeOK'
  BY <1>2 DEF RecordSurfaced, Kind, server, file
<1>3. ASSUME NEW p \in Page, Flush(p) PROVE TypeOK'
  <2>1. PICK r \in Req : /\ flight' = [flight EXCEPT ![p] = r]
                         /\ upto' = [upto EXCEPT ![p] = [k \in Kind |-> Len(log[k])]]
                         /\ stage' = [stage EXCEPT ![r] = "sent"]
                         /\ batch' = [batch EXCEPT ![r] =
                              [k \in Kind |-> [x \in Record |-> Pending(k, x)]]]
    BY <1>3 DEF Flush
  <2>2. [k \in Kind |-> [x \in Record |-> Pending(k, x)]] \in Copies
    BY PendingType DEF Copies
  <2>3. batch' \in [Req -> Copies] /\ flight' \in [Page -> Req \cup {NoReq}]
    BY <2>1, <2>2
  <2>4. stage' \in [Req -> Stage]
    BY <2>1
  <2>5. upto' \in [Page -> [Kind -> Nat]] /\ \A q \in Page, k \in Kind : upto'[q][k] <= Len(log[k])
    <3>1. [k \in Kind |-> Len(log[k])] \in [Kind -> Nat]
      OBVIOUS
    <3>2. QED
      BY <2>1, <3>1
  <2>6. QED
    BY <1>3, <2>3, <2>4, <2>5 DEF Flush, file
<1>4. ASSUME NEW p \in Page, Acknowledge(p) PROVE TypeOK'
  BY <1>4 DEF Acknowledge, file, NoLength
<1>5. ASSUME NEW p \in Page, GiveUp(p) PROVE TypeOK'
  BY <1>5 DEF GiveUp, server, file, NoLength
<1>6. ASSUME NEW r \in Req, Discard(r) PROVE TypeOK'
  BY <1>6 DEF Discard, client, file
<1>7. ASSUME NEW r \in Req, Arrive(r) PROVE TypeOK'
  BY <1>7 DEF Arrive, client, file
<1>8. ASSUME NEW r \in Req, CheckConsent(r) PROVE TypeOK'
  BY <1>8 DEF CheckConsent, client, file
<1>9. ASSUME NEW r \in Req, Load(r) PROVE TypeOK'
  <2>1. Ingest(IF fileState = "whole" THEN fileData ELSE NoCopies, batch[r]) \in Copies
    BY IngestType
  <2>2. QED
    BY <1>9, <2>1 DEF Load, client, file
<1>10. ASSUME NEW r \in Req, Truncate(r) PROVE TypeOK'
  BY <1>10 DEF Truncate, client
<1>11. ASSUME NEW r \in Req, Write(r) PROVE TypeOK'
  BY <1>11 DEF Write, client
<1>12. CASE Crash
  BY <1>12 DEF Crash, client, file
<1>13. CASE Grant
  BY <1>13 DEF Grant, client, server, file
<1>14. CASE Withdraw
  BY <1>14 DEF Withdraw, client, server, file
<1>15. CASE UNCHANGED vars
  BY <1>15 DEF vars, client, server, file
<1>16. QED
  BY <1>1, <1>2, <1>3, <1>4, <1>5, <1>6, <1>7, <1>8, <1>9, <1>10, <1>11, <1>12,
     <1>13, <1>14, <1>15 DEF Next

LEMMA InitTypeOK == Init => TypeOK
BY NoCopiesType DEF Init, TypeOK, Stage, NoLength

\* The type invariant, the length of what a page captured included.
THEOREM TypeCorrect == Spec => []TypeOK
BY InitTypeOK, StepKeepsTypeOK, PTL DEF Spec

-----------------------------------------------------------------------------
(* Exactly once *)

\* ingest adds a record only where the profile has none, and then one copy.
LEMMA IngestOnce ==
  ASSUME NEW profile \in Copies, NEW b \in Copies, NEW k \in Kind, NEW x \in Record
  PROVE  Ingest(profile, b)[k][x] = IF profile[k][x] > 0 THEN profile[k][x]
                                    ELSE IF b[k][x] > 0 THEN 1 ELSE 0
BY DEF Ingest, Unseen, Copies

\* A handler's copy and the file are only ever an earlier profile, or ingest of one.
LEMMA StepKeepsNoDoubledLog ==
  ASSUME TypeOK, NoDoubledLog, [Next]_vars
  PROVE  NoDoubledLog'
<1> DEFINE Single(c) == \A k \in Kind, x \in Record : c[k][x] <= 1
<1>0. Single(NoCopies) /\ Single(fileData) /\ \A r \in Req : Single(prof[r])
  BY DEF NoDoubledLog, NoCopies
<1>1. Single(fileData') /\ \A r \in Req : Single(prof'[r])
  <2>1. ASSUME NEW r \in Req, Load(r)
        PROVE  Single(fileData') /\ \A q \in Req : Single(prof'[q])
    <3> DEFINE before == IF fileState = "whole" THEN fileData ELSE NoCopies
               after  == Ingest(before, batch[r])
    <3>1. before \in Copies /\ batch[r] \in Copies
      BY NoCopiesType DEF TypeOK
    <3>2. Single(before)
      BY <1>0
    <3>3. Single(after)
      <4>1. ASSUME NEW k \in Kind, NEW x \in Record PROVE after[k][x] <= 1
        <5>1. after[k][x] = IF before[k][x] > 0 THEN before[k][x]
                            ELSE IF batch[r][k][x] > 0 THEN 1 ELSE 0
          BY <3>1, IngestOnce
        <5>2. QED
          BY <3>2, <5>1
      <4>2. QED
        BY <4>1
    <3>4. fileData' = fileData /\ prof' \in {prof, [prof EXCEPT ![r] = after]}
      BY <2>1 DEF Load, file, client
    <3>5. QED
      BY <1>0, <3>3, <3>4 DEF TypeOK
  <2>2. ASSUME NEW r \in Req, Write(r)
        PROVE  Single(fileData') /\ \A q \in Req : Single(prof'[q])
    <3>1. fileData' \in {prof[r], fileData} /\ prof' = [prof EXCEPT ![r] = NoCopies]
      BY <2>2 DEF Write
    <3>2. QED
      BY <1>0, <3>1 DEF TypeOK
  <2>3. CASE Crash
    BY <1>0, <2>3 DEF Crash, file
  <2>4. CASE UNCHANGED <<fileData, prof>>
    BY <1>0, <2>4
  <2>5. UNCHANGED <<fileData, prof>> \/ Crash \/ \E r \in Req : Load(r) \/ Write(r)
    BY DEF Next, vars, client, server, file, RecordInteraction, RecordSurfaced, Flush,
           Acknowledge, GiveUp, Discard, Arrive, CheckConsent, Truncate, Grant, Withdraw
  <2>6. QED
    BY <2>1, <2>2, <2>3, <2>4, <2>5
<1>2. QED
  BY <1>1 DEF NoDoubledLog

\* "Never a doubled log": however often a batch is sent again, however many
\* handlers run at once and whenever the console restarts, no profile, in the
\* file or in a handler's memory, holds a record twice.
THEOREM LogIsNeverDoubled == Spec => []NoDoubledLog
<1>1. Init => NoDoubledLog
  BY DEF Init, NoDoubledLog, NoCopies
<1>2. QED
  BY <1>1, TypeCorrect, StepKeepsNoDoubledLog, PTL DEF Spec

-----------------------------------------------------------------------------
(* Consent *)

Past == {"load", "save", "writing"}

\* Only CheckConsent takes a request past the check, and only while consent stands.
LEMMA PastTheCheck ==
  ASSUME TypeOK, [Next]_vars, NEW r \in Req, stage'[r] \in Past, stage[r] \notin Past
  PROVE  consent = "granted" /\ consent' = "granted"
<1> USE DEF Past, TypeOK
<1>1. ASSUME NEW q \in Req, CheckConsent(q) PROVE consent = "granted" /\ consent' = "granted"
  BY <1>1 DEF CheckConsent
<1>2. ASSUME NEW q \in Req, Discard(q) \/ Arrive(q) \/ Load(q) \/ Truncate(q) \/ Write(q)
      PROVE  FALSE
  BY <1>2 DEF Discard, Arrive, Load, Truncate, Write
<1>3. ASSUME NEW p \in Page, Flush(p) \/ Acknowledge(p) \/ GiveUp(p) PROVE FALSE
  BY <1>3 DEF Flush, Acknowledge, GiveUp, server
<1>4. ASSUME NEW x \in Record, RecordInteraction(x) \/ RecordSurfaced(x) PROVE FALSE
  BY <1>4 DEF RecordInteraction, RecordSurfaced, server
<1>5. ASSUME Crash \/ Grant \/ Withdraw \/ UNCHANGED vars PROVE FALSE
  BY <1>5 DEF Crash, Grant, Withdraw, vars, server, client
<1>6. QED
  BY <1>1, <1>2, <1>3, <1>4, <1>5 DEF Next

\* The file changes only by the hand of a handler that is saving.
LEMMA OnlySavesTouchTheFile ==
  ASSUME TypeOK, [Next]_vars, \A r \in Req : stage[r] \notin {"save", "writing"}
  PROVE  UNCHANGED file
BY DEF Next, vars, client, server, file, RecordInteraction, RecordSurfaced, Flush, Acknowledge,
       GiveUp, Discard, Arrive, CheckConsent, Load, Truncate, Write, Crash, Grant, Withdraw

LEMMA ConsentComesOnce ==
  ASSUME [Next]_vars
  PROVE  consent' = consent \/ Grant \/ Withdraw
BY DEF Next, vars, client, server, file, RecordInteraction, RecordSurfaced, Flush, Acknowledge,
       GiveUp, Discard, Arrive, CheckConsent, Load, Truncate, Write, Crash

\* A child for whom nobody ever consented has no file, whatever is sent.
THEOREM ConsentComesFirst == Spec => []ConsentFirst
<1>1. Init => ConsentFirst
  BY DEF Init, ConsentFirst
<1>2. ASSUME TypeOK, ConsentFirst, [Next]_vars PROVE ConsentFirst'
  <2>1. SUFFICES ASSUME consent' = "none"
                 PROVE  fileState' = "absent" /\ \A r \in Req : stage'[r] \notin Past
    BY DEF ConsentFirst, Past
  <2>2. consent = "none"
    BY <1>2, <2>1, ConsentComesOnce DEF Grant, Withdraw
  <2>3. fileState = "absent" /\ \A r \in Req : stage[r] \notin Past
    BY <1>2, <2>2 DEF ConsentFirst, Past
  <2>4. fileState' = fileState
    BY <1>2, <2>3, OnlySavesTouchTheFile DEF Past, file
  <2>5. \A r \in Req : stage'[r] \notin Past
    BY <1>2, <2>2, <2>3, PastTheCheck
  <2>6. QED
    BY <2>3, <2>4, <2>5
<1>3. QED
  BY <1>1, <1>2, TypeCorrect, PTL DEF Spec

\* After a withdrawal no request passes the check any more, and once those
\* already past it are done the file is at rest for good.
THEOREM WithdrawalIsFinal == Spec => WithdrawalStops
<1>1. ASSUME TypeOK, [Next]_vars
      PROVE  [consent = "withdrawn" =>
                /\ \A r \in Req : stage'[r] \in {"load", "save", "writing"}
                                   => stage[r] \in {"load", "save", "writing"}
                /\ (\A r \in Req : stage[r] \notin {"save", "writing"})
                     => UNCHANGED file]_vars
  BY <1>1, PastTheCheck, OnlySavesTouchTheFile DEF Past
<1>2. QED
  BY <1>1, TypeCorrect, PTL DEF Spec, WithdrawalStops

-----------------------------------------------------------------------------
(* Delivery, while handlers run one at a time and the console does not restart *)

OneAtATime == MaxHandlers <= 1 /\ MaxCrashes = 0

\* What one handler at a time keeps: the file a handler writes is its own, and
\* what it is about to save has everything the file has.
HandlerInv ==
  /\ \A q, r \in Req : stage[q] \in Running /\ stage[r] \in Running => q = r
  /\ \A r \in Req : stage[r] = "writing" => fileState = "empty"
  /\ \A r \in Req : stage[r] = "save" =>
       \A k \in Kind, x \in Record :
         fileState = "whole" /\ fileData[k][x] > 0 => prof[r][k][x] > 0

\* Record x is on its way in request r.
InHand(r, k, x) ==
  \/ stage[r] \in {"sent", "consent", "load"} /\ batch[r][k][x] > 0
  \/ stage[r] \in {"save", "writing"} /\ prof[r][k][x] > 0

\* A page awaits a request of its own.
OwnRequest ==
  \A p \in Page : flight[p] # NoReq =>
    /\ stage[flight[p]] # "free"
    /\ \A q \in Page : flight[q] = flight[p] => q = p

\* What the captured lengths of page p cover is held or on its way in the request
\* p awaits, unless that was refused.
Covered(p) ==
  flight[p] # NoReq /\ stage[flight[p]] # "refused" =>
    \A k \in Kind : \A i \in 1..upto[p][k] :
      Held(k, log[k][i]) \/ InHand(flight[p], k, log[k][i])

DeliveryInv ==
  HandlerInv /\ OwnRequest /\ (\A p \in Page : Covered(p)) /\ KnownDelivered

\* A handler starts only when none runs.
LEMMA ArrivesAlone ==
  ASSUME HandlerInv, OneAtATime, NEW r \in Req, Arrive(r)
  PROVE  \A q \in Req : stage[q] \notin Running
<1> DEFINE S == {q \in Req : stage[q] \in Running}
<1>1. Cardinality(S) < MaxHandlers
  BY DEF Arrive
<1>2. SUFFICES ASSUME NEW q \in S PROVE FALSE
  OBVIOUS
<1>3. S = {q}
  BY <1>2 DEF HandlerInv
<1>4. Cardinality({q}) = 1
  BY FS_Singleton
<1>5. QED
  BY <1>1, <1>3, <1>4, BoundsAssumption DEF OneAtATime

LEMMA NoCrash == ASSUME TypeOK, OneAtATime PROVE ~Crash
BY DEF TypeOK, OneAtATime, Crash

\* The steps that touch neither the file nor what a handler holds.
LEMMA ClientKeepsHandlerInv ==
  ASSUME TypeOK, HandlerInv, UNCHANGED <<prof, fileState, fileData>>,
         \A r \in Req : stage'[r] \in Running => stage'[r] = stage[r]
  PROVE  HandlerInv' /\ \A k \in Kind, x \in Record :
           (\A r \in Req : stage[r] = "writing" => stage'[r] = "writing") /\ Held(k, x)
             => Held(k, x)'
BY DEF HandlerInv, Held, Running

\* Nothing held is lost, however the steps of pages and handler interleave.
LEMMA StepKeepsHandlerInv ==
  ASSUME TypeOK, HandlerInv, OneAtATime, [Next]_vars
  PROVE  /\ HandlerInv'
         /\ \A k \in Kind, x \in Record : Held(k, x) => Held(k, x)'
<1> DEFINE Goal == HandlerInv' /\ \A k \in Kind, x \in Record : Held(k, x) => Held(k, x)'
<1>0. stage \in [Req -> Stage] /\ prof \in [Req -> Copies] /\ fileData \in Copies
  BY DEF TypeOK
<1>1. ASSUME NEW p \in Page, Flush(p) PROVE Goal
  <2>1. PICK r \in Req : stage[r] = "free" /\ stage' = [stage EXCEPT ![r] = "sent"]
    BY <1>1 DEF Flush
  <2>2. UNCHANGED <<prof, fileState, fileData>>
    BY <1>1 DEF Flush, file
  <2>3. \A q \in Req : /\ stage'[q] \in Running => stage'[q] = stage[q]
                       /\ stage[q] = "writing" => stage'[q] = "writing"
    BY <1>0, <2>1 DEF Running
  <2>4. QED
    BY <2>2, <2>3, ClientKeepsHandlerInv
<1>2. ASSUME NEW p \in Page, Acknowledge(p) PROVE Goal
  <2>1. stage[flight[p]] = "ok" /\ stage' = [stage EXCEPT ![flight[p]] = "free"]
    BY <1>2 DEF Acknowledge
  <2>2. UNCHANGED <<prof, fileState, fileData>>
    BY <1>2 DEF Acknowledge, file
  <2>3. \A q \in Req : /\ stage'[q] \in Running => stage'[q] = stage[q]
                       /\ stage[q] = "writing" => stage'[q] = "writing"
    BY <1>0, <2>1 DEF Running
  <2>4. QED
    BY <2>2, <2>3, ClientKeepsHandlerInv
<1>3. ASSUME NEW r \in Req, Discard(r) PROVE Goal
  <2>1. stage[r] # "writing" /\ stage' = [stage EXCEPT ![r] = "free"]
    BY <1>3 DEF Discard
  <2>2. UNCHANGED <<prof, fileState, fileData>>
    BY <1>3 DEF Discard, file
  <2>3. \A q \in Req : /\ stage'[q] \in Running => stage'[q] = stage[q]
                       /\ stage[q] = "writing" => stage'[q] = "writing"
    BY <1>0, <2>1 DEF Running
  <2>4. QED
    BY <2>2, <2>3, ClientKeepsHandlerInv
<1>4. ASSUME UNCHANGED <<stage, prof, file>> PROVE Goal
  BY <1>4, ClientKeepsHandlerInv DEF file
<1>5. ASSUME NEW r \in Req, Arrive(r) PROVE Goal
  <2>1. \A q \in Req : stage[q] \notin Running
    BY <1>5, ArrivesAlone
  <2>2. stage' = [stage EXCEPT ![r] = "consent"] /\ UNCHANGED <<prof, fileState, fileData>>
    BY <1>5 DEF Arrive, file
  <2>3. QED
    BY <1>0, <2>1, <2>2 DEF HandlerInv, Held, Running
<1>6. ASSUME NEW r \in Req, CheckConsent(r) PROVE Goal
  <2>1. /\ stage[r] = "consent"
        /\ stage' = [stage EXCEPT ![r] = "load"] \/ stage' = [stage EXCEPT ![r] = "refused"]
        /\ UNCHANGED <<prof, fileState, fileData>>
    BY <1>6 DEF CheckConsent, file
  <2>2. QED
    BY <1>0, <2>1 DEF HandlerInv, Held, Running
<1>7. ASSUME NEW r \in Req, Load(r) PROVE Goal
  <2> DEFINE before == IF fileState = "whole" THEN fileData ELSE NoCopies
             after  == Ingest(before, batch[r])
  <2>1. /\ stage[r] = "load" /\ UNCHANGED <<fileState, fileData>>
        /\ \/ stage' = [stage EXCEPT ![r] = "save"] /\ prof' = [prof EXCEPT ![r] = after]
           \/ stage' = [stage EXCEPT ![r] = "refused"] /\ UNCHANGED prof
    BY <1>7 DEF Load, file
  <2>2. before \in Copies /\ batch[r] \in Copies
    BY NoCopiesType DEF TypeOK
  <2>3. \A k \in Kind, x \in Record :
          fileState = "whole" /\ fileData[k][x] > 0 => after[k][x] > 0
    BY <2>2, IngestOnce
  <2> HIDE DEF after
  <2>4. QED
    BY <1>0, <2>1, <2>3 DEF HandlerInv, Held, Running
<1>8. ASSUME NEW r \in Req, Truncate(r) PROVE Goal
  <2>1. /\ stage[r] = "save" /\ stage' = [stage EXCEPT ![r] = "writing"]
        /\ fileState' = "empty" /\ UNCHANGED <<prof, fileData>>
    BY <1>8 DEF Truncate
  <2>2. \A q \in Req : stage[q] \in Running => q = r
    BY <2>1 DEF HandlerInv, Running
  <2>3. stage'[r] = "writing" /\ \A q \in Req \ {r} : stage'[q] = stage[q]
    BY <1>0, <2>1
  <2>4. HandlerInv'
    BY <2>1, <2>2, <2>3 DEF HandlerInv, Running
  <2>5. ASSUME NEW k \in Kind, NEW x \in Record, Held(k, x)
        PROVE  Held(k, x)'
    <3>1. prof[r][k][x] > 0
      BY <2>1, <2>2, <2>5 DEF HandlerInv, Held, Running
    <3>2. QED
      BY <2>1, <2>3, <3>1 DEF Held
  <2>6. QED
    BY <2>4, <2>5
<1>9. ASSUME NEW r \in Req, Write(r) PROVE Goal
  <2>1. stage[r] = "writing" /\ fileState = "empty"
    BY <1>9 DEF Write, HandlerInv
  <2>2. /\ stage' = [stage EXCEPT ![r] = "ok"] /\ fileState' = "whole" /\ fileData' = prof[r]
        /\ prof' = [prof EXCEPT ![r] = NoCopies]
    BY <1>9, <2>1 DEF Write
  <2>3. \A q \in Req : stage[q] \in Running => q = r
    BY <2>1 DEF HandlerInv, Running
  <2>4. stage'[r] = "ok" /\ \A q \in Req \ {r} : stage'[q] = stage[q]
    BY <1>0, <2>2
  <2>5. \A q \in Req : stage'[q] \notin Running
    BY <2>3, <2>4 DEF Running
  <2>6. QED
    BY <2>1, <2>2, <2>3, <2>5 DEF HandlerInv, Held, Running
<1>10. UNCHANGED <<stage, prof, file>>
         \/ (\E p \in Page : Flush(p) \/ Acknowledge(p))
         \/ (\E r \in Req : \/ Discard(r) \/ Arrive(r) \/ CheckConsent(r)
                            \/ Load(r) \/ Truncate(r) \/ Write(r))
  BY NoCrash DEF Next, vars, client, server, RecordInteraction, RecordSurfaced, GiveUp,
                 Grant, Withdraw
<1>11. QED
  <2> HIDE DEF Goal
  <2>1. Goal
    BY <1>1, <1>2, <1>3, <1>4, <1>5, <1>6, <1>7, <1>8, <1>9, <1>10
  <2>2. QED
    BY <2>1 DEF Goal

\* The logs only grow.
LEMMA LogGrows ==
  ASSUME TypeOK, [Next]_vars, NEW k \in Kind
  PROVE  /\ Len(log[k]) <= Len(log'[k])
         /\ \A i \in 1..Len(log[k]) : log'[k][i] = log[k][i]
<1>0. log \in [Kind -> Seq(Record)] /\ \A j \in Kind : Len(log[j]) \in Nat
  BY DEF TypeOK
<1>1. ASSUME NEW x \in Record, NEW j \in Kind, log' = [log EXCEPT ![j] = Append(@, x)]
      PROVE  /\ Len(log[k]) <= Len(log'[k])
             /\ \A i \in 1..Len(log[k]) : log'[k][i] = log[k][i]
  BY <1>0, <1>1
<1>2. CASE log' = log
  BY <1>0, <1>2
<1>3. \/ log' = log
      \/ \E x \in Record, j \in Kind : log' = [log EXCEPT ![j] = Append(@, x)]
  BY DEF Kind, Next, vars, client, RecordInteraction, RecordSurfaced, Flush, Acknowledge,
         GiveUp, Discard, Arrive, CheckConsent, Load, Truncate, Write, Crash, Grant, Withdraw
<1>4. QED
  BY <1>1, <1>2, <1>3

\* A request not refused, discarded or answered carries on what it has in hand,
\* into the profile and from there into the file.
LEMMA InHandMoves ==
  ASSUME TypeOK, HandlerInv, OneAtATime, [Next]_vars,
         NEW r \in Req, NEW k \in Kind, NEW x \in Record, InHand(r, k, x),
         stage'[r] \notin {"refused", "free"}
  PROVE  InHand(r, k, x)' \/ Held(k, x)'
<1>0. /\ stage \in [Req -> Stage] /\ batch \in [Req -> Copies] /\ prof \in [Req -> Copies]
      /\ stage[r] \in {"sent", "consent", "load", "save", "writing"}
  BY DEF TypeOK, InHand
<1>1. ASSUME NEW p \in Page, Flush(p) PROVE InHand(r, k, x)'
  BY <1>0, <1>1 DEF Flush, InHand
<1>2. ASSUME NEW p \in Page, Acknowledge(p) PROVE InHand(r, k, x)'
  BY <1>0, <1>2 DEF Acknowledge, InHand
<1>3. ASSUME NEW q \in Req, Discard(q) PROVE InHand(r, k, x)'
  BY <1>0, <1>3 DEF Discard, InHand
<1>4. ASSUME UNCHANGED <<stage, batch, prof>> PROVE InHand(r, k, x)'
  BY <1>4 DEF InHand
<1>5. ASSUME NEW q \in Req, Arrive(q) PROVE InHand(r, k, x)'
  BY <1>0, <1>5 DEF Arrive, InHand
<1>6. ASSUME NEW q \in Req, CheckConsent(q) PROVE InHand(r, k, x)'
  BY <1>0, <1>6 DEF CheckConsent, InHand
<1>7. ASSUME NEW q \in Req, Load(q) PROVE InHand(r, k, x)'
  <2> DEFINE before == IF fileState = "whole" THEN fileData ELSE NoCopies
             after  == Ingest(before, batch[q])
  <2>1. before \in Copies /\ batch[q] \in Copies
    BY NoCopiesType DEF TypeOK
  <2>2. batch[q][k][x] > 0 => after[k][x] > 0
    BY <2>1, IngestOnce
  <2> HIDE DEF after
  <2>3. /\ stage[q] = "load" /\ batch' = [batch EXCEPT ![q] = NoCopies]
        /\ \/ stage' = [stage EXCEPT ![q] = "save"] /\ prof' = [prof EXCEPT ![q] = after]
           \/ stage' = [stage EXCEPT ![q] = "refused"] /\ UNCHANGED prof
    BY <1>7 DEF Load, after
  <2>4. QED
    BY <1>0, <2>2, <2>3 DEF InHand
<1>8. ASSUME NEW q \in Req, Truncate(q) PROVE InHand(r, k, x)'
  BY <1>0, <1>8 DEF Truncate, InHand
<1>9. ASSUME NEW q \in Req, Write(q) PROVE InHand(r, k, x)' \/ Held(k, x)'
  <2>1. /\ stage[q] = "writing" /\ stage' = [stage EXCEPT ![q] = "ok"]
        /\ fileState' = "whole" /\ fileData' = prof[q]
        /\ prof' = [prof EXCEPT ![q] = NoCopies] /\ UNCHANGED batch
    BY <1>9 DEF Write, HandlerInv
  <2>2. CASE q = r
    BY <1>0, <2>1, <2>2 DEF InHand, Held
  <2>3. CASE q # r
    BY <1>0, <2>1, <2>3 DEF InHand
  <2>4. QED
    BY <2>2, <2>3
<1>10. UNCHANGED <<stage, batch, prof>>
         \/ (\E p \in Page : Flush(p) \/ Acknowledge(p))
         \/ (\E q \in Req : \/ Discard(q) \/ Arrive(q) \/ CheckConsent(q)
                            \/ Load(q) \/ Truncate(q) \/ Write(q))
  BY NoCrash DEF Next, vars, client, server, RecordInteraction, RecordSurfaced, GiveUp,
                 Grant, Withdraw
<1>11. QED
  BY <1>1, <1>2, <1>3, <1>4, <1>5, <1>6, <1>7, <1>8, <1>9, <1>10

LEMMA StepKeepsOwnRequest ==
  ASSUME TypeOK, OwnRequest, [Next]_vars
  PROVE  OwnRequest'
<1> USE NoReqAssumption
<1>0. stage \in [Req -> Stage] /\ flight \in [Page -> Req \cup {NoReq}]
  BY DEF TypeOK
<1>1. ASSUME NEW p \in Page, Flush(p) PROVE OwnRequest'
  <2>1. PICK r \in Req : /\ stage[r] = "free" /\ flight' = [flight EXCEPT ![p] = r]
                         /\ stage' = [stage EXCEPT ![r] = "sent"]
    BY <1>1 DEF Flush
  <2>2. QED
    BY <1>0, <2>1 DEF OwnRequest
<1>2. ASSUME NEW p \in Page, Acknowledge(p) PROVE OwnRequest'
  BY <1>0, <1>2 DEF Acknowledge, OwnRequest
<1>3. ASSUME NEW p \in Page, GiveUp(p) PROVE OwnRequest'
  BY <1>0, <1>3 DEF GiveUp, server, OwnRequest
<1>4. ASSUME NEW r \in Req, Discard(r) PROVE OwnRequest'
  BY <1>0, <1>4 DEF Discard, client, Orphan, OwnRequest
<1>5. ASSUME UNCHANGED flight, \A r \in Req : stage[r] # "free" => stage'[r] # "free"
      PROVE  OwnRequest'
  BY <1>0, <1>5 DEF OwnRequest
<1>6. \/ \E p \in Page : Flush(p) \/ Acknowledge(p) \/ GiveUp(p)
      \/ \E r \in Req : Discard(r)
      \/ UNCHANGED flight /\ \A r \in Req : stage[r] # "free" => stage'[r] # "free"
  <2>1. ASSUME NEW r \in Req, Arrive(r) \/ CheckConsent(r) \/ Load(r) \/ Truncate(r) \/ Write(r)
        PROVE  UNCHANGED flight /\ \A q \in Req : stage[q] # "free" => stage'[q] # "free"
    BY <1>0, <2>1 DEF Arrive, CheckConsent, Load, Truncate, Write, client
  <2>2. ASSUME Crash
        PROVE  UNCHANGED flight /\ \A q \in Req : stage[q] # "free" => stage'[q] # "free"
    BY <1>0, <2>2 DEF Crash, client
  <2>3. QED
    BY <2>1, <2>2 DEF Next, vars, client, server, RecordInteraction, RecordSurfaced,
                      Grant, Withdraw
<1>7. QED
  BY <1>1, <1>2, <1>3, <1>4, <1>5, <1>6

\* A record past the watermark is in the batch.
LEMMA PendingCounts ==
  ASSUME TypeOK, NEW k \in Kind, NEW i \in (mark[k] + 1)..Len(log[k])
  PROVE  Pending(k, log[k][i]) > 0
<1> DEFINE S == {j \in (mark[k] + 1)..Len(log[k]) : log[k][j] = log[k][i]}
<1>1. mark[k] + 1 \in Int /\ Len(log[k]) \in Int
  BY DEF TypeOK
<1>2. IsFiniteSet(S)
  BY <1>1, FS_Interval, FS_Subset
<1>3. i \in S
  OBVIOUS
<1>4. Cardinality(S) \in Nat /\ Cardinality(S) # 0
  BY <1>2, <1>3, FS_CardinalityType, FS_EmptySet
<1>5. QED
  BY <1>4 DEF Pending

\* A refused request is at its end.
LEMMA RefusedStays ==
  ASSUME TypeOK, [Next]_vars, NEW r \in Req, stage[r] = "refused"
  PROVE  stage'[r] \in {"refused", "free"}
<1>0. stage \in [Req -> Stage]
  BY DEF TypeOK
<1>1. ASSUME NEW p \in Page, Flush(p) \/ Acknowledge(p) \/ GiveUp(p)
      PROVE  stage'[r] \in {"refused", "free"}
  BY <1>0, <1>1 DEF Flush, Acknowledge, GiveUp, server
<1>2. ASSUME NEW q \in Req,
             Discard(q) \/ Arrive(q) \/ CheckConsent(q) \/ Load(q) \/ Truncate(q) \/ Write(q)
      PROVE  stage'[r] \in {"refused", "free"}
  BY <1>0, <1>2 DEF Discard, Arrive, CheckConsent, Load, Truncate, Write
<1>3. ASSUME Crash \/ UNCHANGED stage PROVE stage'[r] \in {"refused", "free"}
  BY <1>3 DEF Crash
<1>4. QED
  BY <1>1, <1>2, <1>3 DEF Next, vars, server, RecordInteraction, RecordSurfaced, Grant, Withdraw

\* A page that goes on waiting stays covered.
LEMMA WaitingStaysCovered ==
  ASSUME TypeOK, HandlerInv, OwnRequest, OneAtATime, [Next]_vars,
         NEW p \in Page, Covered(p), flight'[p] = flight[p], upto'[p] = upto[p]
  PROVE  Covered(p)'
<1>1. SUFFICES ASSUME flight[p] # NoReq, stage'[flight[p]] # "refused",
                      NEW k \in Kind, NEW i \in 1..upto[p][k]
               PROVE  Held(k, log[k][i])' \/ InHand(flight[p], k, log[k][i])'
  BY DEF Covered
<1>2. flight[p] \in Req /\ i \in 1..Len(log[k]) /\ log[k][i] \in Record
  BY <1>1 DEF TypeOK
<1>3. PICK f \in Req, x \in Record : f = flight[p] /\ x = log[k][i] /\ x = log'[k][i]
  BY <1>2, LogGrows
<1>4. stage'[f] \notin {"refused", "free"}
  BY <1>1, <1>3, StepKeepsOwnRequest DEF OwnRequest
<1>5. stage[f] # "refused"
  BY <1>3, <1>4, RefusedStays
<1>6. Held(k, x) \/ InHand(f, k, x)
  BY <1>1, <1>3, <1>5 DEF Covered
<1>7. Held(k, x)' \/ InHand(f, k, x)'
  BY <1>4, <1>6, StepKeepsHandlerInv, InHandMoves
<1>8. QED
  BY <1>3, <1>7 DEF Held, InHand

\* What is past the watermark goes into the batch, what is before it is held.
LEMMA FlushCovers ==
  ASSUME TypeOK, HandlerInv, KnownDelivered, OneAtATime, NEW p \in Page, Flush(p)
  PROVE  Covered(p)'
<1>1. PICK r \in Req : /\ flight' = [flight EXCEPT ![p] = r]
                       /\ upto' = [upto EXCEPT ![p] = [k \in Kind |-> Len(log[k])]]
                       /\ stage' = [stage EXCEPT ![r] = "sent"]
                       /\ batch' = [batch EXCEPT ![r] =
                            [k \in Kind |-> [x \in Record |-> Pending(k, x)]]]
  BY DEF Flush
<1>2. /\ flight'[p] = r /\ upto'[p] = [k \in Kind |-> Len(log[k])] /\ stage'[r] = "sent"
      /\ batch'[r] = [k \in Kind |-> [x \in Record |-> Pending(k, x)]] /\ log' = log
  BY <1>1 DEF TypeOK, Flush
<1>3. SUFFICES ASSUME NEW k \in Kind, NEW i \in 1..Len(log[k])
               PROVE  Held(k, log[k][i])' \/ InHand(flight[p], k, log[k][i])'
  BY <1>2 DEF Covered
<1>4. log[k][i] \in Record /\ mark[k] \in Nat /\ Len(log[k]) \in Nat
  BY DEF TypeOK
<1>5. PICK x \in Record : x = log[k][i] /\ x = log'[k][i]
  BY <1>2, <1>4
<1>6. CASE i <= mark[k]
  <2>1. i \in 1..mark[k]
    BY <1>4, <1>6
  <2>2. Held(k, log[k][i])
    BY <2>1 DEF KnownDelivered
  <2>3. Held(k, x)
    BY <1>5, <2>2 DEF Held
  <2>4. Held(k, x)'
    BY <2>3, StepKeepsHandlerInv DEF Next
  <2>5. QED
    BY <1>5, <2>4 DEF Held
<1>7. CASE i \in (mark[k] + 1)..Len(log[k])
  <2>1. Pending(k, x) > 0
    BY <1>5, <1>7, PendingCounts
  <2>2. batch'[r][k][x] = Pending(k, x)
    BY <1>2
  <2>3. QED
    BY <1>2, <1>5, <2>1, <2>2 DEF InHand
<1>8. QED
  BY <1>4, <1>6, <1>7

\* The watermark moves only over what the acknowledged request has stored.
LEMMA MarkCoversHeld ==
  ASSUME TypeOK, DeliveryInv, OneAtATime, [Next]_vars
  PROVE  KnownDelivered'
<1>1. mark' = mark \/ \E p \in Page : Acknowledge(p) /\ mark' = upto[p]
  BY DEF Next, vars, client, server, RecordInteraction, RecordSurfaced, Flush, Acknowledge,
         GiveUp, Discard, Arrive, CheckConsent, Load, Truncate, Write, Crash, Grant, Withdraw
<1>2. SUFFICES ASSUME NEW k \in Kind, NEW i \in 1..mark'[k] PROVE Held(k, log[k][i])'
  BY DEF KnownDelivered
<1>3. i \in 1..Len(log[k]) /\ Held(k, log[k][i])
  <2>1. CASE mark' = mark
    BY <2>1 DEF DeliveryInv, KnownDelivered, TypeOK
  <2>2. ASSUME NEW p \in Page, Acknowledge(p), mark' = upto[p]
        PROVE  i \in 1..Len(log[k]) /\ Held(k, log[k][i])
    <3>1. flight[p] # NoReq /\ stage[flight[p]] = "ok"
      BY <2>2 DEF Acknowledge
    <3>2. Held(k, log[k][i]) \/ InHand(flight[p], k, log[k][i])
      BY <2>2, <3>1 DEF DeliveryInv, Covered
    <3>3. ~InHand(flight[p], k, log[k][i])
      BY <3>1 DEF InHand
    <3>4. QED
      BY <2>2, <3>2, <3>3 DEF TypeOK
  <2>3. QED
    BY <1>1, <2>1, <2>2
<1>4. PICK x \in Record : x = log[k][i] /\ x = log'[k][i]
  BY <1>3, LogGrows DEF TypeOK
<1>5. Held(k, x)'
  BY <1>3, <1>4, StepKeepsHandlerInv DEF DeliveryInv
<1>6. QED
  BY <1>4, <1>5 DEF Held

LEMMA StepKeepsDeliveryInv ==
  ASSUME TypeOK, DeliveryInv, OneAtATime, [Next]_vars
  PROVE  DeliveryInv'
<1>1. HandlerInv' /\ OwnRequest' /\ KnownDelivered'
  BY StepKeepsHandlerInv, StepKeepsOwnRequest, MarkCoversHeld DEF DeliveryInv
<1>2. ASSUME NEW p \in Page PROVE Covered(p)'
  <2>0. flight \in [Page -> Req \cup {NoReq}] /\ upto \in [Page -> [Kind -> Nat]]
    BY DEF TypeOK
  <2>1. ASSUME NEW q \in Page, Flush(q) PROVE Covered(p)'
    <3>1. CASE p = q
      BY <2>1, <3>1, FlushCovers DEF DeliveryInv
    <3>2. CASE p # q
      <4>1. flight'[p] = flight[p] /\ upto'[p] = upto[p]
        BY <2>0, <2>1, <3>2 DEF Flush
      <4>2. QED
        BY <4>1, WaitingStaysCovered DEF DeliveryInv
    <3>3. QED
      BY <3>1, <3>2
  <2>2. ASSUME NEW q \in Page, Acknowledge(q) \/ GiveUp(q) PROVE Covered(p)'
    <3>1. CASE p = q
      BY <2>0, <2>2, <3>1 DEF Acknowledge, GiveUp, Covered
    <3>2. CASE p # q
      <4>1. flight'[p] = flight[p] /\ upto'[p] = upto[p]
        BY <2>0, <2>2, <3>2 DEF Acknowledge, GiveUp
      <4>2. QED
        BY <4>1, WaitingStaysCovered DEF DeliveryInv
    <3>3. QED
      BY <3>1, <3>2
  <2>3. CASE UNCHANGED <<flight, upto>>
    BY <2>3, WaitingStaysCovered DEF DeliveryInv
  <2>4. QED
    BY <2>1, <2>2, <2>3 DEF Next, vars, client, RecordInteraction, RecordSurfaced, Discard,
       Arrive, CheckConsent, Load, Truncate, Write, Crash, Grant, Withdraw
<1>3. QED
  BY <1>1, <1>2 DEF DeliveryInv

LEMMA InitDeliveryInv == Init => DeliveryInv
BY DEF Init, DeliveryInv, HandlerInv, OwnRequest, Covered, KnownDelivered, NoLength, Running

\* "Records before it are known-delivered": whatever is lost, resent, reloaded or
\* acknowledged late, by however many pages, what the watermark covers is held by
\* the store, as long as handlers run one at a time and the console does not
\* restart.  (Without either, the runs show it false.)
THEOREM WatermarkIsDelivered ==
  ASSUME OneAtATime
  PROVE  Spec => []KnownDelivered
<1>1. TypeOK /\ DeliveryInv /\ [Next]_vars => DeliveryInv'
  BY StepKeepsDeliveryInv
<1>2. DeliveryInv => KnownDelivered
  BY DEF DeliveryInv
<1>3. QED
  BY <1>1, <1>2, InitDeliveryInv, TypeCorrect, PTL DEF Spec

-----------------------------------------------------------------------------
(* The promise of the road *)

\* Every copy anybody holds is of a record the log has.
Logged(c) == \A k \in Kind, x \in Record : c[k][x] > 0 => InLog(k, x)

LoggedInv ==
  /\ Logged(fileData)
  /\ \A r \in Req : Logged(batch[r]) /\ Logged(prof[r])

LEMMA PendingIsLogged ==
  ASSUME TypeOK, NEW k \in Kind, NEW x \in Record, Pending(k, x) > 0
  PROVE  InLog(k, x)
<1> DEFINE S == {i \in (mark[k] + 1)..Len(log[k]) : log[k][i] = x}
<1>1. S # {}
  <2>1. SUFFICES ASSUME S = {} PROVE FALSE
    OBVIOUS
  <2>2. Cardinality(S) = 0
    BY <2>1, FS_EmptySet
  <2>3. QED
    BY <2>2 DEF Pending
<1>2. PICK i \in S : TRUE
  BY <1>1
<1>3. mark[k] \in Nat /\ Len(log[k]) \in Nat
  BY DEF TypeOK
<1>4. QED
  BY <1>2, <1>3 DEF InLog

LEMMA InLogStays ==
  ASSUME TypeOK, [Next]_vars, NEW k \in Kind, NEW x \in Record, InLog(k, x)
  PROVE  InLog(k, x)'
<1>1. /\ Len(log[k]) \in Nat /\ Len(log[k]) <= Len(log'[k]) /\ Len(log'[k]) \in Nat
      /\ \A i \in 1..Len(log[k]) : log'[k][i] = log[k][i]
  BY LogGrows, StepKeepsTypeOK DEF TypeOK
<1>2. QED
  BY <1>1 DEF InLog

\* The hands through which a record passes add none of their own.
LEMMA StepKeepsLoggedInv ==
  ASSUME TypeOK, LoggedInv, [Next]_vars
  PROVE  LoggedInv'
<1> DEFINE Sound(c) == \A k \in Kind, x \in Record : c[k][x] > 0 => InLog(k, x)
<1>0. /\ Sound(NoCopies) /\ Sound(fileData)
      /\ \A r \in Req : Sound(batch[r]) /\ Sound(prof[r])
  BY DEF LoggedInv, Logged, NoCopies
<1>1. Sound(fileData') /\ \A r \in Req : Sound(batch'[r]) /\ Sound(prof'[r])
  <2> DEFINE Goal == Sound(fileData') /\ \A r \in Req : Sound(batch'[r]) /\ Sound(prof'[r])
  <2>0. batch \in [Req -> Copies] /\ prof \in [Req -> Copies]
    BY DEF TypeOK
  <2>1. ASSUME NEW p \in Page, Flush(p) PROVE Goal
    <3> DEFINE full == [k \in Kind |-> [x \in Record |-> Pending(k, x)]]
    <3>1. Sound(full)
      BY PendingIsLogged
    <3> HIDE DEF full, Sound
    <3>2. PICK r \in Req : batch' = [batch EXCEPT ![r] = full]
      BY <2>1 DEF Flush, full
    <3>3. QED
      BY <1>0, <2>0, <2>1, <3>1, <3>2 DEF Flush, file
  <2>2. ASSUME NEW r \in Req, Load(r) PROVE Goal
    <3> DEFINE before == IF fileState = "whole" THEN fileData ELSE NoCopies
               after  == Ingest(before, batch[r])
    <3>1. before \in Copies /\ batch[r] \in Copies /\ Sound(before) /\ Sound(batch[r])
      BY <1>0, NoCopiesType DEF TypeOK
    <3>2. Sound(after)
      <4>1. ASSUME NEW k \in Kind, NEW x \in Record, after[k][x] > 0 PROVE InLog(k, x)
        <5>1. after[k][x] = IF before[k][x] > 0 THEN before[k][x]
                            ELSE IF batch[r][k][x] > 0 THEN 1 ELSE 0
          BY <3>1, IngestOnce
        <5>2. before[k][x] > 0 \/ batch[r][k][x] > 0
          BY <4>1, <5>1
        <5>3. QED
          BY <3>1, <5>2
      <4>2. QED
        BY <4>1
    <3>3. /\ fileData' = fileData /\ batch' = [batch EXCEPT ![r] = NoCopies]
          /\ prof' = prof \/ prof' = [prof EXCEPT ![r] = after]
      BY <2>2 DEF Load, file
    <3> HIDE DEF after, Sound
    <3>4. QED
      BY <1>0, <2>0, <3>2, <3>3
  <2>3. ASSUME NEW r \in Req, Write(r) PROVE Goal
    <3>1. /\ fileData' = prof[r] \/ fileData' = fileData
          /\ prof' = [prof EXCEPT ![r] = NoCopies] /\ batch' = batch
      BY <2>3 DEF Write
    <3> HIDE DEF Sound
    <3>2. QED
      BY <1>0, <2>0, <3>1
  <2>4. ASSUME UNCHANGED <<fileData, prof>>,
               \A q \in Req : batch'[q] = batch[q] \/ batch'[q] = NoCopies
        PROVE  Goal
    <3> HIDE DEF Sound
    <3>1. QED
      BY <1>0, <2>4
  <2>5. ASSUME Crash PROVE Goal
    <3>1. /\ fileData' = fileData
          /\ \A q \in Req : /\ batch'[q] = batch[q] \/ batch'[q] = NoCopies
                            /\ prof'[q] = NoCopies
      BY <2>5 DEF Crash, file
    <3> HIDE DEF Sound
    <3>2. QED
      BY <1>0, <3>1
  <2>6. \/ Crash \/ (\E p \in Page : Flush(p)) \/ (\E r \in Req : Load(r) \/ Write(r))
        \/ /\ UNCHANGED <<fileData, prof>>
           /\ \A q \in Req : batch'[q] = batch[q] \/ batch'[q] = NoCopies
    <3>1. ASSUME NEW r \in Req, Discard(r) \/ CheckConsent(r)
          PROVE  /\ UNCHANGED <<fileData, prof>>
                 /\ \A q \in Req : batch'[q] = batch[q] \/ batch'[q] = NoCopies
      BY <2>0, <3>1 DEF Discard, CheckConsent, file
    <3>2. QED
      BY <3>1 DEF Next, vars, client, server, file, RecordInteraction, RecordSurfaced,
         Acknowledge, GiveUp, Arrive, Truncate, Grant, Withdraw
  <2>7. Goal
    <3> HIDE DEF Goal
    <3>1. QED
      BY <2>1, <2>2, <2>3, <2>4, <2>5, <2>6
  <2>8. QED
    BY <2>7
<1>2. QED
  BY <1>1, InLogStays DEF LoggedInv, Logged

Emitted == [k \in Kind |-> {x \in Record : InLog(k, x)}]
Stored  == [k \in Kind |-> {x \in Record : Held(k, x)}]
Acked   == [k \in Kind |-> {log[k][i] : i \in 1..mark[k]}]

\* Every step is one of the promise's, or none.
LEMMA StepKeepsPromise ==
  ASSUME TypeOK, DeliveryInv, LoggedInv, OneAtATime, [Next]_vars
  PROVE  [Promise!Next]_(Promise!vars)
<1> DEFINE Goal == Promise!Next \/ UNCHANGED <<Emitted, Stored, Acked>>
<1>0. /\ stage \in [Req -> Stage] /\ prof \in [Req -> Copies]
      /\ log \in [Kind -> Seq(Record)] /\ mark \in [Kind -> Nat]
      /\ \A k \in Kind : mark[k] <= Len(log[k])
  BY DEF TypeOK
<1>1. ASSUME log' = log PROVE Emitted' = Emitted
  BY <1>1 DEF Emitted, InLog
<1>2. ASSUME log' = log, mark' = mark PROVE Acked' = Acked
  BY <1>2 DEF Acked
<1>3. ASSUME UNCHANGED <<fileState, fileData>>,
             \A r \in Req : /\ stage'[r] = "writing" <=> stage[r] = "writing"
                            /\ stage[r] = "writing" => prof'[r] = prof[r]
      PROVE  Stored' = Stored
  BY <1>3 DEF Stored, Held
<1>4. ASSUME NEW x \in Record, NEW k \in Kind, log' = [log EXCEPT ![k] = Append(@, x)],
             UNCHANGED <<mark, server, file>>
      PROVE  Goal
  <2>1. Stored' = Stored
    BY <1>3, <1>4 DEF server, file
  <2>2. /\ Len(log'[k]) = Len(log[k]) + 1 /\ log'[k][Len(log[k]) + 1] = x
        /\ \A i \in 1..Len(log[k]) : log'[k][i] = log[k][i]
        /\ \A j \in Kind \ {k} : log'[j] = log[j]
        /\ \A j \in Kind : Len(log[j]) \in Nat
    BY <1>0, <1>4
  <2>3. Acked' = Acked
    BY <1>0, <1>4, <2>2 DEF Acked
  <2>4. Emitted' = [Emitted EXCEPT ![k] = @ \cup {x}]
    <3>1. ASSUME NEW j \in Kind, NEW y \in Record
          PROVE  InLog(j, y)' <=> (InLog(j, y) \/ (j = k /\ y = x))
      BY <1>0, <1>4, <2>2 DEF InLog
    <3>2. QED
      BY <3>1 DEF Emitted
  <2>5. Promise!Emit(k, x)
    BY <2>1, <2>3, <2>4 DEF Promise!Emit, Emitted, Stored, Acked
  <2>6. QED
    BY <2>5 DEF Promise!Next
<1>5. ASSUME NEW p \in Page, Acknowledge(p) PROVE Goal
  <2>1. stage[flight[p]] = "ok" /\ stage' = [stage EXCEPT ![flight[p]] = "free"]
        /\ UNCHANGED <<log, prof, fileState, fileData>>
    BY <1>5 DEF Acknowledge, file
  <2>2. Stored' = Stored
    BY <1>0, <1>3, <2>1
  <2>3. /\ KnownDelivered' /\ log' \in [Kind -> Seq(Record)]
        /\ \A k \in Kind : mark'[k] \in Nat /\ mark'[k] <= Len(log'[k])
    BY StepKeepsDeliveryInv, StepKeepsTypeOK DEF DeliveryInv, TypeOK
  <2>4. ASSUME NEW k \in Kind, NEW i \in 1..mark'[k]
        PROVE  log'[k][i] \in Record /\ log'[k][i] \in Stored'[k]
    <3>1. log'[k][i] \in Record
      BY <2>3
    <3>2. Held(k, log[k][i])'
      BY <2>3 DEF KnownDelivered
    <3>3. QED
      BY <3>1, <3>2 DEF Stored, Held
  <2>5. Acked' \in [Kind -> SUBSET Record] /\ \A k \in Kind : Acked'[k] \subseteq Stored[k]
    BY <2>2, <2>4 DEF Acked
  <2>6. Promise!Ack
    BY <1>1, <2>1, <2>2, <2>5 DEF Promise!Ack, Emitted, Stored, Acked
  <2>7. QED
    BY <2>6 DEF Promise!Next
<1>6. ASSUME NEW r \in Req, Truncate(r) \/ Write(r) PROVE Goal
  <2>1. UNCHANGED <<log, mark>>
    BY <1>6 DEF Truncate, Write, client
  <2>2. ASSUME NEW k \in Kind PROVE Stored[k] \subseteq Stored'[k]
    BY StepKeepsHandlerInv DEF DeliveryInv, Stored
  <2>3. ASSUME NEW k \in Kind PROVE Stored'[k] \subseteq Emitted[k]
    <3>1. ASSUME NEW x \in Record, Held(k, x)' PROVE InLog(k, x)
      <4>1. LoggedInv'
        BY StepKeepsLoggedInv
      <4>2. InLog(k, x)'
        BY <3>1, <4>1 DEF LoggedInv, Logged, Held
      <4>3. QED
        BY <2>1, <4>2 DEF InLog
    <3>2. QED
      BY <3>1 DEF Stored, Emitted
  <2>4. Stored' \in [Kind -> SUBSET Record]
    BY DEF Stored
  <2>5. Promise!Store
    BY <1>1, <1>2, <2>1, <2>2, <2>3, <2>4 DEF Promise!Store, Emitted, Stored, Acked
  <2>6. QED
    BY <2>5 DEF Promise!Next
<1>7. ASSUME UNCHANGED <<log, mark, fileState, fileData>>,
             \A r \in Req : /\ stage'[r] = "writing" <=> stage[r] = "writing"
                            /\ stage[r] = "writing" => prof'[r] = prof[r]
      PROVE  Goal
  BY <1>1, <1>2, <1>3, <1>7
<1>8. ASSUME NEW p \in Page, Flush(p) PROVE Goal
  <2>1. PICK r \in Req : stage[r] = "free" /\ stage' = [stage EXCEPT ![r] = "sent"]
    BY <1>8 DEF Flush
  <2>2. QED
    BY <1>0, <1>7, <1>8, <2>1 DEF Flush, file
<1>9. ASSUME NEW r \in Req, Discard(r) \/ Arrive(r) \/ CheckConsent(r) \/ Load(r) PROVE Goal
  <2>1. UNCHANGED <<log, mark, fileState, fileData>>
    BY <1>9 DEF Discard, Arrive, CheckConsent, Load, client, file
  <2>2. /\ stage[r] # "writing" /\ stage'[r] # "writing"
        /\ \A q \in Req \ {r} : stage'[q] = stage[q] /\ prof'[q] = prof[q]
    BY <1>0, <1>9 DEF Discard, Arrive, CheckConsent, Load
  <2>3. QED
    BY <1>7, <2>1, <2>2
<1>10. \/ \E x \in Record, k \in Kind : /\ log' = [log EXCEPT ![k] = Append(@, x)]
                                        /\ UNCHANGED <<mark, server, file>>
       \/ \E p \in Page : Flush(p) \/ Acknowledge(p)
       \/ \E r \in Req : \/ Discard(r) \/ Arrive(r) \/ CheckConsent(r)
                         \/ Load(r) \/ Truncate(r) \/ Write(r)
       \/ UNCHANGED <<log, mark, server, file>>
  BY NoCrash DEF Next, vars, client, Kind, RecordInteraction, RecordSurfaced, GiveUp,
                 Grant, Withdraw
<1>11. Goal
  <2>1. ASSUME UNCHANGED <<log, mark, server, file>> PROVE Goal
    BY <1>7, <2>1 DEF server, file
  <2> HIDE DEF Goal
  <2>2. QED
    BY <1>4, <1>5, <1>6, <1>8, <1>9, <1>10, <2>1
<1>12. QED
  BY <1>11 DEF Promise!vars, Emitted, Stored, Acked

\* The whole road, from the game's log through pages, requests, handler and file,
\* keeps what DeliveredLog promises: what is stored was emitted and stays stored,
\* and what the game believes acknowledged is stored.
THEOREM RoadKeepsPromise ==
  ASSUME OneAtATime
  PROVE  Spec => KeepsPromise
<1>1. Init => LoggedInv /\ Promise!Init
  BY DEF Init, LoggedInv, Logged, NoCopies, NoLength, Promise!Init, InLog, Held
<1>2. TypeOK /\ DeliveryInv /\ [Next]_vars => DeliveryInv'
  BY StepKeepsDeliveryInv
<1>3. TypeOK /\ LoggedInv /\ [Next]_vars => LoggedInv'
  BY StepKeepsLoggedInv
<1>4. TypeOK /\ DeliveryInv /\ LoggedInv /\ [Next]_vars => [Promise!Next]_(Promise!vars)
  BY StepKeepsPromise
<1>5. QED
  BY <1>1, <1>2, <1>3, <1>4, InitDeliveryInv, TypeCorrect, PTL
     DEF Spec, KeepsPromise, Promise!Spec

=============================================================================
