---------------------------- MODULE SignalIngest ----------------------------
(***************************************************************************)
(* How a child's play reaches the guide's store.                           *)
(*                                                                         *)
(* The discovery game appends records to a log in localStorage             *)
(* (signals/log.ts); every open page ships what lies past a shared         *)
(* watermark (signals/uplink.ts) to the console's POST handler             *)
(* (api/ingest/route.ts), which checks consent, loads the child's profile  *)
(* file, folds the batch in (student-profile/ingest.ts) and saves the file *)
(* (profile-store-fs).  The handler is split at each of its awaits, so two *)
(* requests may run between each other's steps.                            *)
(*                                                                         *)
(* One child: the game tags every record with the constant KID_ID, so      *)
(* ingest's filter by kid always keeps everything.  What runCycle derives  *)
(* from the logs is modelled elsewhere; here a profile is its two logs,    *)
(* each as the number of copies it holds of a record.                      *)
(***************************************************************************)
EXTENDS Naturals, Sequences, FiniteSets

CONSTANTS Page,         \* the documents (tabs) that share one localStorage
          Record,       \* identities of records: JSON.stringify of a record
          Req,          \* ids of the POST requests alive at one time
          NoReq,        \* "this page awaits no request"
          MaxLog,       \* bound: records per log
          MaxHandlers,  \* bound: handlers running at one time
          MaxCrashes    \* bound: restarts of the console

ASSUME NoReqAssumption == NoReq \notin Req
ASSUME BoundsAssumption == MaxLog \in Nat /\ MaxHandlers \in Nat /\ MaxCrashes \in Nat

VARIABLES
  log,        \* the two append-only logs in localStorage
  mark,       \* the watermark in localStorage: how much of each is acknowledged
  flight,     \* per page: the request its flush awaits (inFlight), or NoReq
  upto,       \* per page: the log lengths its flush captured
  stage,      \* per request: where it is
  batch,      \* per request: copies of each record in its body
  prof,       \* per request: the profile its handler computed, in memory
  fileState,  \* the child's profile file
  fileData,   \* what it holds when whole
  consent,    \* what decideConsent answers from consent.json
  crashes

client == <<log, mark, flight, upto>>
server == <<stage, batch, prof>>
file   == <<fileState, fileData>>
vars   == <<client, server, file, consent, crashes>>

Kind     == {"interactions", "surfaced"}
Copies   == [Kind -> [Record -> Nat]]
NoCopies == [k \in Kind |-> [x \in Record |-> 0]]
NoLength == [k \in Kind |-> 0]

\* At a handler: the awaits of POST.  "ok" and "refused" are answered requests.
Running == {"consent", "load", "save", "writing"}
Stage   == {"free", "sent", "ok", "refused"} \cup Running

Init ==
  /\ log = [k \in Kind |-> <<>>]
  /\ mark = NoLength
  /\ flight = [p \in Page |-> NoReq]
  /\ upto = [p \in Page |-> NoLength]
  /\ stage = [r \in Req |-> "free"]
  /\ batch = [r \in Req |-> NoCopies]
  /\ prof = [r \in Req |-> NoCopies]
  /\ fileState = "absent"
  /\ fileData = NoCopies
  /\ consent = "none"
  /\ crashes = 0

-----------------------------------------------------------------------------
(* The game *)

InLog(k, x) == \E i \in 1..Len(log[k]) : log[k][i] = x

\* recordOpen, recordAction, recordSourceFollow: append an interaction.  Two
\* may be the same in every field, timestamp included.
RecordInteraction(x) ==
  /\ Len(log["interactions"]) < MaxLog
  /\ log' = [log EXCEPT !["interactions"] = Append(@, x)]
  /\ UNCHANGED <<mark, flight, upto, server, file, consent, crashes>>

\* recordSurfaced: once per session and artifact.
RecordSurfaced(x) ==
  /\ ~InLog("surfaced", x)
  /\ Len(log["surfaced"]) < MaxLog
  /\ log' = [log EXCEPT !["surfaced"] = Append(@, x)]
  /\ UNCHANGED <<mark, flight, upto, server, file, consent, crashes>>

\* Copies of x in the slice of log k past the watermark.
Pending(k, x) == Cardinality({i \in (mark[k] + 1)..Len(log[k]) : log[k][i] = x})

\* flush, up to its await: one at a time per page, and only when something is
\* past the watermark.
Flush(p) ==
  /\ flight[p] = NoReq
  /\ \E k \in Kind : mark[k] < Len(log[k])
  /\ \E r \in Req :
       /\ stage[r] = "free"
       /\ flight' = [flight EXCEPT ![p] = r]
       /\ upto' = [upto EXCEPT ![p] = [k \in Kind |-> Len(log[k])]]
       /\ stage' = [stage EXCEPT ![r] = "sent"]
       /\ batch' = [batch EXCEPT ![r] = [k \in Kind |-> [x \in Record |-> Pending(k, x)]]]
  /\ UNCHANGED <<log, mark, prof, file, consent, crashes>>

\* Mutants of Acknowledge.  The captured lengths added to the watermark, as if
\* they were the batch's.
AcknowledgeAdding(p) ==
  /\ flight[p] # NoReq
  /\ stage[flight[p]] = "ok"
  /\ mark' = [k \in Kind |-> mark[k] + upto[p][k]]
  /\ stage' = [stage EXCEPT ![flight[p]] = "free"]
  /\ flight' = [flight EXCEPT ![p] = NoReq]
  /\ upto' = [upto EXCEPT ![p] = NoLength]
  /\ UNCHANGED <<log, batch, prof, file, consent, crashes>>

\* The lengths read after the await instead of before it.
AcknowledgeRereading(p) ==
  /\ flight[p] # NoReq
  /\ stage[flight[p]] = "ok"
  /\ mark' = [k \in Kind |-> Len(log[k])]
  /\ stage' = [stage EXCEPT ![flight[p]] = "free"]
  /\ flight' = [flight EXCEPT ![p] = NoReq]
  /\ upto' = [upto EXCEPT ![p] = NoLength]
  /\ UNCHANGED <<log, batch, prof, file, consent, crashes>>

\* flush, after a 2xx: the watermark becomes the captured lengths, unless
\* localStorage refuses the write.
Acknowledge(p) ==
  /\ flight[p] # NoReq
  /\ stage[flight[p]] = "ok"
  /\ mark' \in {upto[p], mark}
  /\ stage' = [stage EXCEPT ![flight[p]] = "free"]
  /\ flight' = [flight EXCEPT ![p] = NoReq]
  /\ upto' = [upto EXCEPT ![p] = NoLength]
  /\ UNCHANGED <<log, batch, prof, file, consent, crashes>>

\* Mutant of GiveUp: no finally, so inFlight stays set after a failure.
GiveUpHolding(p) ==
  /\ flight[p] # NoReq
  /\ stage[flight[p]] = "refused"
  /\ stage' = [stage EXCEPT ![flight[p]] = "free"]
  /\ UNCHANGED <<client, batch, prof, file, consent, crashes>>

\* flush's catch and its not-ok answer: a refusal, a response that never came,
\* or a page reloaded while it waited.  The request itself lives on.
GiveUp(p) ==
  /\ flight[p] # NoReq
  /\ flight' = [flight EXCEPT ![p] = NoReq]
  /\ upto' = [upto EXCEPT ![p] = NoLength]
  /\ UNCHANGED <<log, mark, server, file, consent, crashes>>

-----------------------------------------------------------------------------
(* The network *)

Orphan(r) == \A p \in Page : flight[p] # r

\* A request nobody awaits is lost on its way, or its answer is dropped.
Discard(r) ==
  /\ Orphan(r)
  /\ stage[r] \in {"sent", "ok", "refused"}
  /\ stage' = [stage EXCEPT ![r] = "free"]
  /\ batch' = [batch EXCEPT ![r] = NoCopies]
  /\ UNCHANGED <<client, prof, file, consent, crashes>>

\* A request reaches POST, which parses it: the uplink's body is well formed.
Arrive(r) ==
  /\ stage[r] = "sent"
  /\ Cardinality({q \in Req : stage[q] \in Running}) < MaxHandlers
  /\ stage' = [stage EXCEPT ![r] = "consent"]
  /\ UNCHANGED <<client, batch, prof, file, consent, crashes>>

-----------------------------------------------------------------------------
(* The handler *)

\* Mutants of CheckConsent.  Only a withdrawal refuses.
CheckConsentOpen(r) ==
  /\ stage[r] = "consent"
  /\ stage' = [stage EXCEPT ![r] = IF consent # "withdrawn" THEN "load" ELSE "refused"]
  /\ batch' = [batch EXCEPT ![r] = IF consent # "withdrawn" THEN @ ELSE NoCopies]
  /\ UNCHANGED <<client, prof, file, consent, crashes>>

\* A withdrawal is not looked at.
CheckConsentOnce(r) ==
  /\ stage[r] = "consent"
  /\ stage' = [stage EXCEPT ![r] = IF consent # "none" THEN "load" ELSE "refused"]
  /\ batch' = [batch EXCEPT ![r] = IF consent # "none" THEN @ ELSE NoCopies]
  /\ UNCHANGED <<client, prof, file, consent, crashes>>

\* POST after reading consent.json: a missing or unreadable file is no consent.
CheckConsent(r) ==
  /\ stage[r] = "consent"
  /\ IF consent = "granted"
     THEN /\ stage' = [stage EXCEPT ![r] = "load"]
          /\ UNCHANGED batch
     ELSE /\ stage' = [stage EXCEPT ![r] = "refused"]
          /\ batch' = [batch EXCEPT ![r] = NoCopies]
  /\ UNCHANGED <<client, prof, file, consent, crashes>>

\* Mutant of Unseen: deduplicates against the profile, not within the batch.
UnseenByProfile(profile, b) ==
  [k \in Kind |-> [x \in Record |-> IF profile[k][x] = 0 THEN b[k][x] ELSE 0]]

\* unseen: what of the batch the profile does not hold, each record once.
Unseen(profile, b) ==
  [k \in Kind |-> [x \in Record |-> IF profile[k][x] = 0 /\ b[k][x] > 0 THEN 1 ELSE 0]]

\* Mutant of Ingest: the batch in place of the log instead of behind it.
IngestReplacing(profile, b) == Unseen(profile, b)

\* ingest and runCycle: the profile's logs followed by the fresh records.
Ingest(profile, b) ==
  [k \in Kind |-> [x \in Record |-> profile[k][x] + Unseen(profile, b)[k][x]]]

\* store.load and the fold.  No file is an empty profile; a file that does not
\* parse throws, and the request ends in a 500.
Load(r) ==
  /\ stage[r] = "load"
  /\ IF fileState \in {"absent", "whole"}
     THEN /\ prof' = [prof EXCEPT ![r] =
               Ingest(IF fileState = "whole" THEN fileData ELSE NoCopies, batch[r])]
          /\ stage' = [stage EXCEPT ![r] = "save"]
     ELSE /\ stage' = [stage EXCEPT ![r] = "refused"]
          /\ UNCHANGED prof
  /\ batch' = [batch EXCEPT ![r] = NoCopies]
  /\ UNCHANGED <<client, file, consent, crashes>>

\* store.save, writeFile opening the file: it is truncated at once.
Truncate(r) ==
  /\ stage[r] = "save"
  /\ stage' = [stage EXCEPT ![r] = "writing"]
  /\ fileState' = "empty"
  /\ UNCHANGED <<client, batch, prof, fileData, consent, crashes>>

\* store.save, the bytes landing.  On a file still empty they are the file.  On
\* one another writer filled since, they land over its bytes, and a shorter text
\* leaves the tail of the longer one behind: the file then does not parse.
Write(r) ==
  /\ stage[r] = "writing"
  /\ stage' = [stage EXCEPT ![r] = "ok"]
  /\ \/ /\ fileState' = "whole"
        /\ fileData' = prof[r]
     \/ /\ \/ fileState = "corrupt"
           \/ fileState = "whole" /\ fileData # prof[r]
        /\ fileState' = "corrupt"
        /\ UNCHANGED fileData
  /\ prof' = [prof EXCEPT ![r] = NoCopies]
  /\ UNCHANGED <<client, batch, consent, crashes>>

\* The console restarts: every handler dies where it stands, and the file stays
\* as it was.
Crash ==
  /\ crashes < MaxCrashes
  /\ crashes' = crashes + 1
  /\ stage' = [r \in Req |-> IF stage[r] \in Running THEN "refused" ELSE stage[r]]
  /\ batch' = [r \in Req |-> IF stage[r] \in Running THEN NoCopies ELSE batch[r]]
  /\ prof' = [r \in Req |-> NoCopies]
  /\ UNCHANGED <<client, file, consent>>

-----------------------------------------------------------------------------
(* The people who edit consent.json.  A withdrawal is never undone. *)

Grant ==
  /\ consent = "none"
  /\ consent' = "granted"
  /\ UNCHANGED <<client, server, file, crashes>>

Withdraw ==
  /\ consent = "granted"
  /\ consent' = "withdrawn"
  /\ UNCHANGED <<client, server, file, crashes>>

-----------------------------------------------------------------------------
Next ==
  \/ \E x \in Record : RecordInteraction(x) \/ RecordSurfaced(x)
  \/ \E p \in Page : Flush(p) \/ Acknowledge(p) \/ GiveUp(p)
  \/ \E r \in Req : \/ Discard(r) \/ Arrive(r) \/ CheckConsent(r)
                    \/ Load(r) \/ Truncate(r) \/ Write(r)
  \/ Crash \/ Grant \/ Withdraw

Spec == Init /\ [][Next]_vars

\* Every open page keeps its timer; a handler that runs goes on; what is sent
\* again and again arrives again and again, and its answer too.
Fairness ==
  /\ \A p \in Page : WF_vars(Flush(p)) /\ SF_vars(Acknowledge(p))
  /\ \A p \in Page : WF_vars(flight[p] # NoReq /\ stage[flight[p]] = "refused" /\ GiveUp(p))
  /\ \A r \in Req : /\ SF_vars(Arrive(r))
                    /\ WF_vars(stage[r] \in {"ok", "refused"} /\ Discard(r))
                    /\ WF_vars(CheckConsent(r) \/ Load(r) \/ Truncate(r) \/ Write(r))

FairSpec == Spec /\ Fairness

-----------------------------------------------------------------------------
(* Properties *)

TypeOK ==
  /\ log \in [Kind -> Seq(Record)]
  /\ mark \in [Kind -> Nat] /\ \A k \in Kind : mark[k] <= Len(log[k])
  /\ flight \in [Page -> Req \cup {NoReq}]
  /\ upto \in [Page -> [Kind -> Nat]] /\ \A p \in Page, k \in Kind : upto[p][k] <= Len(log[k])
  /\ stage \in [Req -> Stage]
  /\ batch \in [Req -> Copies] /\ prof \in [Req -> Copies]
  /\ fileState \in {"absent", "empty", "whole", "corrupt"}
  /\ fileData \in Copies
  /\ consent \in {"none", "granted", "withdrawn"}
  /\ crashes \in Nat

\* In the profile file, or in the hands of the handler that is writing it.
Held(k, x) ==
  \/ fileState = "whole" /\ fileData[k][x] > 0
  \/ \E r \in Req : stage[r] = "writing" /\ prof[r][k][x] > 0

\* "Records before it are known-delivered" (uplink.ts): what the watermark
\* covers will never be sent again, so the store must hold it.
KnownDelivered == \A k \in Kind : \A i \in 1..mark[k] : Held(k, log[k][i])

\* "Never a doubled log" (uplink.ts): whatever is resent, a profile holds a
\* record once, in the file and in every handler's copy.
NoDoubledLog ==
  \A k \in Kind, x \in Record :
    /\ fileData[k][x] <= 1
    /\ \A r \in Req : prof[r][k][x] <= 1

\* A child for whom nobody ever consented has no profile file, and no handler
\* holds one (route.ts: a missing consent file means no consent).
ConsentFirst ==
  consent = "none" =>
    /\ fileState = "absent"
    /\ \A r \in Req : stage[r] \notin {"load", "save", "writing"}

\* Once consent is withdrawn no further request passes the check, so when the
\* ones already past it are gone the file never changes again.
WithdrawalStops ==
  [][consent = "withdrawn" =>
       /\ \A r \in Req : stage'[r] \in {"load", "save", "writing"}
                          => stage[r] \in {"load", "save", "writing"}
       /\ (\A r \in Req : stage[r] \notin {"save", "writing"}) => UNCHANGED file]_vars

\* While consent stands, every record the child left behind is in the file at
\* last, whatever is lost, resent, reloaded or answered late on the way.
Delivered ==
  \A k \in Kind, x \in Record :
    <>[](consent = "granted") =>
      (InLog(k, x) ~> (fileState = "whole" /\ fileData[k][x] > 0))

\* The promise of the whole road: DeliveredLog, where stored is what is held,
\* and acknowledged what the watermark covers.
Promise == INSTANCE DeliveredLog WITH
  emitted <- [k \in Kind |-> {x \in Record : InLog(k, x)}],
  stored  <- [k \in Kind |-> {x \in Record : Held(k, x)}],
  acked   <- [k \in Kind |-> {log[k][i] : i \in 1..mark[k]}]

KeepsPromise == Promise!Spec
=============================================================================
