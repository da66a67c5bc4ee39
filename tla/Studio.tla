------------------------------- MODULE Studio -------------------------------
(***************************************************************************)
(* A child's studio in one browser tab (apps/project-studio: useStudio,    *)
(* the quest of studio.tsx, askAbout): projects and their journeys, saved  *)
(* whole after every change, and one question about an artefact that       *)
(* turned up with little behind it.  The question comes from a server,     *)
(* while the child goes on working.  What is saved can be read back: left  *)
(* out is a stored text that does not parse, over which the seed is saved  *)
(* (useStudio.ts:44).                                                      *)
(***************************************************************************)
EXTENDS Journey

CONSTANTS Workpiece,     \* project ids
          SeedJourneys,  \* those of seedProjects, with the journeys they come with
          FirstPiece,    \* the first of them, open at the start
          Composed,      \* bound: the kinds the child makes use of
          MaxEntries,    \* bound: entries of a journey
          Nothing

EntryId  == Workpiece \X Nat
WorkEvent == [id : EntryId, kind : WorkEventKind, stuck : BOOLEAN, refs : Seq(EntryId)]

\* js is the journeys of some of the projects.
AreJourneys(js) == \E some \in SUBSET Workpiece : js \in [some -> Seq(WorkEvent)]

\* Every entry bears the id of its place.
InPlace(js) == \A p \in DOMAIN js : \A i \in 1..Len(js[p]) : js[p][i].id = <<p, i - 1>>

ASSUME StudioAssumption ==
  /\ AreJourneys(SeedJourneys) /\ InPlace(SeedJourneys)
  /\ FirstPiece \in DOMAIN SeedJourneys /\ ~EndsThin(SeedJourneys[FirstPiece])
  /\ Composed \subseteq WorkEventKind /\ MaxEntries \in Nat
ASSUME NothingAssumption == Nothing \notin EntryId /\ ~AreJourneys(Nothing)

VARIABLES
  page,        \* closed, mounting (the seed on screen), or ready
  journeys,    \* the projects on screen
  openId,      \* the project open
  asking,      \* the artefact a question is being fetched about
  pending,     \* the artefact the question on screen is about
  saved        \* STORE_KEY in localStorage

studio == <<page, journeys, openId, asking, pending, saved>>

LastId(js, p) == IF js[p] = <<>> THEN Nothing ELSE Last(js[p]).id

\* Mutant of AskEffect: the question under way is not dropped.
AskEffectOnly ==
  asking' = IF /\ LastId(journeys', openId') # LastId(journeys, openId)
               /\ EndsThin(journeys'[openId'])
              THEN LastId(journeys', openId') ELSE asking

\* The effect keyed on the last entry of the open project: what was being asked is
\* dropped, and a thin artefact asked about.
AskEffect ==
  asking' = IF LastId(journeys', openId') = LastId(journeys, openId) THEN asking
            ELSE IF EndsThin(journeys'[openId']) THEN LastId(journeys', openId')
            ELSE Nothing

\* The effect that saves the projects, unless storage refuses.
PersistEffect == saved' \in {saved, journeys'}

Rendered == AskEffect /\ PersistEffect /\ UNCHANGED page

-----------------------------------------------------------------------------
StudioInit ==
  /\ page = "closed"
  /\ journeys = SeedJourneys /\ openId = FirstPiece
  /\ asking = Nothing /\ pending = Nothing
  /\ saved = Nothing

\* Mutant of Mount: the first paint is saved, too.
MountSaving ==
  /\ page = "closed" /\ page' = "mounting"
  /\ UNCHANGED <<journeys, openId, asking, pending>>
  /\ PersistEffect

\* The first paint shows the seed and saves nothing.
Mount ==
  /\ page = "closed" /\ page' = "mounting"
  /\ UNCHANGED <<journeys, openId, asking, pending, saved>>

\* What was saved takes the seed's place.  It holds the project that is open.
Hydrate ==
  /\ page = "mounting" /\ page' = "ready"
  /\ journeys' = IF saved # Nothing THEN saved ELSE journeys
  /\ UNCHANGED <<openId, pending>>
  /\ AskEffect /\ PersistEffect

Close ==
  /\ page # "closed" /\ page' = "closed"
  /\ journeys' = SeedJourneys /\ openId' = FirstPiece
  /\ asking' = Nothing /\ pending' = Nothing
  /\ UNCHANGED saved

\* addEntry, to the project open now.
AddEntry(kind, stuck, refs) ==
  /\ page = "ready" /\ Len(journeys[openId]) < MaxEntries
  /\ journeys' = [journeys EXCEPT ![openId] = LogEvent(openId, @, kind, stuck, refs)]
  /\ UNCHANGED openId
  /\ Rendered

\* The composer: only an outcome can be one that got stuck, and nothing refers.
Submit(kind, stuck) ==
  /\ stuck => kind = "outcome"
  /\ AddEntry(kind, stuck, <<>>)
  /\ UNCHANGED pending

\* askAbout answers: with the server's question, or one of its own.
QuestionArrives ==
  /\ asking # Nothing
  /\ pending' = asking /\ asking' = Nothing
  /\ UNCHANGED <<page, journeys, openId, saved>>

SendAnswer ==
  /\ pending # Nothing /\ pending' = Nothing
  /\ AddEntry("reflection", FALSE, <<pending>>)

NotNow ==
  /\ pending # Nothing /\ pending' = Nothing
  /\ UNCHANGED <<page, journeys, openId, asking, saved>>

\* setOpenId.  The question on screen stays there.
OpenPiece(p) ==
  /\ page = "ready" /\ p \in DOMAIN journeys
  /\ openId' = p
  /\ UNCHANGED <<journeys, pending>>
  /\ Rendered

\* Mutant of StartSelfProject: the new one is opened before it is there.
StartUnlisted(p) ==
  /\ page = "ready" /\ p \notin DOMAIN journeys
  /\ openId' = p
  /\ UNCHANGED <<page, journeys, asking, pending, saved>>

StartSelfProject(p) ==
  /\ page = "ready" /\ p \notin DOMAIN journeys
  /\ journeys' = [q \in DOMAIN journeys \cup {p} |-> IF q = p THEN <<>> ELSE journeys[q]]
  /\ openId' = p
  /\ UNCHANGED pending
  /\ Rendered

StudioNext ==
  \/ Mount \/ Hydrate \/ Close
  \/ QuestionArrives \/ SendAnswer \/ NotNow
  \/ \E kind \in Composed, stuck \in BOOLEAN : Submit(kind, stuck)
  \/ \E p \in Workpiece : OpenPiece(p) \/ StartSelfProject(p)

StudioSpec == StudioInit /\ [][StudioNext]_studio

-----------------------------------------------------------------------------
(* Properties *)

StudioTypeOK ==
  /\ page \in {"closed", "mounting", "ready"}
  /\ AreJourneys(journeys) /\ openId \in DOMAIN journeys
  /\ {asking, pending} \subseteq EntryId \cup {Nothing}
  /\ saved = Nothing \/ AreJourneys(saved)

\* However often the page goes and comes back, and whichever writes storage refuses,
\* a saved journey only ever grows, and no saved project is dropped: a first paint, or
\* a session that lost some of its writes, never takes the place of what the child made
\* (useStudio.ts:33-58).
SavedJourneysStand ==
  [][saved # Nothing =>
       /\ saved' # Nothing
       /\ \A p \in DOMAIN saved :
            p \in DOMAIN saved' /\ IsPrefix(saved[p], saved'[p])]_studio

\* A question that took its time comes up only over the work it is about: its artefact
\* is still the last thing in the project on screen, and still with little behind it
\* (studio.tsx:175-191).
QuestionsComeHome ==
  [][pending' \notin {pending, Nothing} =>
       pending' = LastId(journeys', openId') /\ EndsThin(journeys'[openId'])]_studio
=============================================================================
