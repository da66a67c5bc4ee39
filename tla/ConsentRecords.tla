-------------------------- MODULE ConsentRecords --------------------------
(***************************************************************************)
(* What the consent on file allows (packages/consent/src/decide.ts).  The  *)
(* records of all guardians are one list: a person writes them, and a      *)
(* withdrawal marks those of its child that are not withdrawn yet.  A      *)
(* decision reads the whole list at the day it is asked on, and keeps      *)
(* nothing: SignalIngest has its single record, this module any number.    *)
(*                                                                         *)
(* The clock counts days.  A date typed by hand may be one nothing can     *)
(* read.  That an allowance wants a review soon is left out.               *)
(***************************************************************************)
EXTENDS Integers, Sequences

CONSTANTS Kid, Purpose,
          Forms,       \* the purposes a form may cover
          Unreadable,  \* a date Date.parse makes nothing of
          Never,       \* expiresAt or withdrawnAt is not there
          ReviewDays,  \* RETENTION_REVIEW_DAYS (365)
          LastDate,    \* bound: days
          MaxFiled     \* bound: records

Date == 1..LastDate \cup {Unreadable}

ConsentRecord ==
  [kid : Kid, purposes : SUBSET Purpose, granted : Date,
   expires : Date \cup {Never}, withdrawn : Date \cup {Never}]

ASSUME ConsentAssumption ==
  /\ Forms \subseteq SUBSET Purpose
  /\ ReviewDays \in Nat /\ LastDate \in Nat \ {0} /\ MaxFiled \in Nat
  /\ Unreadable \notin Int /\ Never \notin Int \cup {Unreadable}

VARIABLES
  filed,  \* the records, oldest first
  now

consents == <<filed, now>>

-----------------------------------------------------------------------------
(* The decision *)

\* parse(d) ?? 0
DayOf(d) == IF d = Unreadable THEN 0 ELSE d

\* Records are told apart by their places in the file.
Of(k) == {i \in DOMAIN filed : filed[i].kid = k}

\* Mutant of IsWithdrawn: only a record for the purpose counts.
IsWithdrawnFor(k, p) ==
  \E i \in Of(k) :
    /\ filed[i].withdrawn # Never /\ DayOf(filed[i].withdrawn) <= now
    /\ p \in filed[i].purposes

\* A withdrawal is checked before everything, the purpose included.
IsWithdrawn(k, p) ==
  \E i \in Of(k) : filed[i].withdrawn # Never /\ DayOf(filed[i].withdrawn) <= now

ForPurpose(k, p) == {i \in Of(k) : p \in filed[i].purposes}

Live(k, p) ==
  {i \in ForPurpose(k, p) :
     filed[i].expires = Never \/ (filed[i].expires # Unreadable /\ filed[i].expires > now)}

\* Mutant of Newest: the first to have been granted.
Oldest(places) ==
  CHOOSE i \in places : \A j \in places :
    /\ DayOf(filed[i].granted) <= DayOf(filed[j].granted)
    /\ j < i => DayOf(filed[i].granted) < DayOf(filed[j].granted)

\* The newest grant, the first on file among those of one day.
Newest(places) ==
  CHOOSE i \in places : \A j \in places :
    /\ DayOf(filed[i].granted) >= DayOf(filed[j].granted)
    /\ j < i => DayOf(filed[i].granted) > DayOf(filed[j].granted)

\* decideConsent: a reason to deny, or "allowed".
DecideConsent(k, p) ==
  LET granted == filed[Newest(Live(k, p))].granted
  IN  IF Of(k) = {} THEN "no-record"
      ELSE IF IsWithdrawn(k, p) THEN "withdrawn"
      ELSE IF ForPurpose(k, p) = {} THEN "purpose-not-granted"
      ELSE IF Live(k, p) = {} THEN "expired"
      ELSE IF granted = Unreadable THEN "no-record"
      ELSE IF now - granted > ReviewDays THEN "stale-needs-review"
      ELSE "allowed"

-----------------------------------------------------------------------------
ConsentInit == filed = <<>> /\ now = 1

\* A guardian's record is written into the file, on the day it is given.
File(k, purposes, granted, expires) ==
  /\ Len(filed) < MaxFiled
  /\ granted \in {now, Unreadable} /\ DayOf(expires) \notin 1..now
  /\ filed' = Append(filed, [kid |-> k, purposes |-> purposes, granted |-> granted,
                             expires |-> expires, withdrawn |-> Never])
  /\ UNCHANGED now

\* withdraw, from a day to come on, too.
WithdrawConsent(k, at) ==
  /\ DayOf(at) \notin 1..(now - 1)
  /\ filed' = [i \in DOMAIN filed |->
                 IF filed[i].kid = k /\ filed[i].withdrawn = Never
                   THEN [filed[i] EXCEPT !.withdrawn = at] ELSE filed[i]]
  /\ UNCHANGED now

Midnight ==
  /\ now < LastDate
  /\ now' = now + 1
  /\ UNCHANGED filed

ConsentNext ==
  \/ Midnight
  \/ \E k \in Kid, d \in Date :
       \/ WithdrawConsent(k, d)
       \/ \E ps \in Forms, e \in Date \cup {Never} : File(k, ps, d, e)

ConsentSpec == ConsentInit /\ [][ConsentNext]_consents

-----------------------------------------------------------------------------
(* Properties *)

ConsentTypeOK == filed \in Seq(ConsentRecord) /\ now \in 1..LastDate

\* Someone who says stop means stop: a withdrawal denies every purpose, those its
\* record did not cover included, and no later record, withdrawal or day takes it
\* back (decide.ts:41-45, 72-81).
WithdrawalIsAbsolute ==
  [][\A k \in Kid, p, q \in Purpose :
       DecideConsent(k, p) = "withdrawn" =>
         DecideConsent(k, q) = "withdrawn" /\ DecideConsent(k, q)' = "withdrawn"]_consents

\* The step files a record for the child and the purpose.
FilesFor(k, p) ==
  /\ Len(filed') = Len(filed) + 1
  /\ filed'[Len(filed')].kid = k /\ p \in filed'[Len(filed')].purposes

\* Nothing but a new record for the child and the purpose turns a "no" into a "yes":
\* no record running out, no date coming up, no withdrawal, and no record that is
\* about someone or something else (decide.ts:47-66).
OnlyAGrantAllows ==
  [][\A k \in Kid, p \in Purpose :
       DecideConsent(k, p)' = "allowed" =>
         DecideConsent(k, p) = "allowed" \/ FilesFor(k, p)]_consents
=============================================================================
