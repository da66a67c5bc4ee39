# A verification project for the passion platform

The repository is a platform for finding and growing a child's interests: a
discovery game records what a child does, a pipeline infers hypotheses about what
holds their interest, a guide (an adult) decides about those hypotheses on a
console, and further parts plan projects, keep evidence of work and broker access
to mentors. The code is TypeScript under `src/passion` (packages, adapters, apps);
`src/archive` is earlier work.

This directory holds TLA+ modules for the parts with state and protocols, TLC
configurations that check them on small instances, and theorems about them that
TLAPS checks for every instance.

## The system

State, operations, interactions, and what makes each part correct.

| Part | State | Operations | Correct when |
|---|---|---|---|
| Signal log, `apps/discovery/runtime/signals/log.ts` | two append-only logs in localStorage | recordOpen, recordAction, recordSurfaced (once per session and artifact) | nothing recorded is lost |
| Uplink, `signals/uplink.ts`, `session.ts` | a watermark in localStorage, an inFlight flag per page | flush on a timer and on page events: ship the slice past the watermark, move the watermark on a 2xx | records before the watermark are in the guide's store; everything arrives at last |
| Ingest handler, `apps/guide-console/app/api/ingest/route.ts` | none of its own | POST: consent, load, ingest, save, with an await at each | one profile, each record once; nothing without consent |
| Profile file, `adapters/profile-store-fs` | one JSON file per child | load; save (truncate, then write) | a whole file at every load |
| Consent, `packages/consent` | records edited by hand | decideConsent, withdraw; eraseEverywhere (nothing calls it) | a withdrawal is final; nothing but a grant allows |
| Student profile, `packages/student-profile` | the logs, the hypothesis store, the artifacts | runCycle over the whole history; deriveGates | human decisions survive, a replay is quiet |
| Hypothesis store, `packages/hypothesis-store` | hypotheses with state, evidence and history | applyInterestRead; promote, park, reopen, contest | each actor within its authority; promotions gated; nothing erased |
| Guide console, `apps/guide-console/app` | a decision log and family reviews in localStorage; the store on screen | runAction, promoteKid, undoLast, resetDecisions, acknowledgeFamily | what a guide decided is kept, and a held promotion is held everywhere |
| Evidence graph, `packages/evidence-graph` | nodes and edges, content-addressed | addNode, addEdge | acyclic, nothing dangling |
| Evidence repository, `adapters/evidence-repo-postgres`, and its client, `apps/evidence-explorer/components/project-store.ts` | two tables; one connection for the process | saveGraph, getGraph, deleteGraph; load (or seed), add, reset | a graph is replaced whole |
| Access broker, `packages/access-broker`, on the console's Plan tab | the matches and the rung of each handoff, in the panel | brokerAccess; proposeMatch, approve, advanceHandoff, declineMatch | behind a guardian's consent, rung by rung; never past what the plan allows |
| Signal pipeline, `packages/signal-pipeline` | none (derived anew from the whole log) | deriveSignals: skips, declines, returns, depth | the order in which records arrive does not matter where it should not |
| Wellbeing and planner, `packages/wellbeing`, `packages/specialization-planner` | none | the pressure read; the stage and the plan | play under strain is held from new demands |
| Socratic defense, `packages/socratic-defense` | a transcript under way | runSession: three ports awaited per turn | bounded follow-ups; every gap on record is one no turn covered |
| Mastery map, `packages/mastery-map` | a versioned store of maps, an open copy per guide | generate, correct, review, publish, retire; put, get | what is in use is checked, and what was edited can be told from what was proposed |
| Concierge, `packages/concierge` | requests under way, the vet queue, the curated library | the pipeline of one question; vetting and promotion | a child gets only what is fit for its own tier |
| Surfacing, `packages/surfacing` | none (read from the surfaced log) | selectHoldOut | a debt once paid stays paid |
| Project studio, `apps/project-studio`, `packages/project-workspace`, `adapters/project-evidence-sink` | projects and their journeys in localStorage; one question in flight | log an entry, switch, start; ask about a thin artefact; record a journey as evidence | nothing a child made is lost on the way to storage or to the graph |
| Interest inference, family read, TimeBack, adapters | none | pure derivations, translations, calls | see the components in `PROJECT.json` |

The road through the system: the game appends to the log; the uplink posts batches
to the console's handler; the handler folds them into the child's profile with
runCycle, which re-derives and re-infers everything and moves the hypotheses by
the system's transitions; the next page load sends the profile to the console,
which replays the guide's own decision log over it. A guide's decision stays in
the browser: it never reaches the profile. The evidence of a project's work is apart
from all this: the explorer's server actions read its graph from the repository,
grow it in memory and save it whole. The studio writes journeys of its own, and a
sink turns them into graphs. The Plan tab of the console reads the store on screen
and the profile below it, and draws the broker's matches from both.

What is hard: handlers that interleave at their awaits and share a file; answers
lost, late or out of order; two tabs on one localStorage, on the game's side and
on the console's; a restart between truncating a file and writing it; consent
withdrawn between the check and the save; a decision log replayed over a profile
that is not the one it was made on; automatic and human transitions of one
hypothesis in any order; requests that interleave between BEGIN and COMMIT of one
database connection; ports that throw between two awaits; children of two ages
served from one library; reads derived anew from a log that arrives late; answers
that come back after the screen has changed. `PROJECT.json` lists each hazard at its line.

## The modules

| Module | Models |
|---|---|
| `DeliveredLog` | the promise of the road from game to store: what is acknowledged is stored, what is stored stays |
| `SignalIngest` | log, uplink, network, ingest handler, profile file and consent |
| `SignalIngest_proofs` | theorems about it, and that it implements `DeliveredLog` |
| `Hypothesis` | operators: the legality table, applyInterestRead and advance, the four human transitions |
| `HypothesisStore` | a child's hypotheses under cycles and decisions |
| `Hypothesis_proofs`, `HypothesisStore_proofs` | lemmas about one hypothesis, theorems about the store |
| `GuideConsole` | the console's decision log in one or more tabs, over a roster that changes between loads |
| `GuideConsole_proofs` | theorems about it |
| `EvidenceGraph` | operators: the evidence graph, hasPath, addNode and addEdge |
| `ProjectGraph` | the promise of the evidence repository: one graph, replaced whole, by what it grew into |
| `EvidenceStore` | the repository's statements and the requests that send them through one connection |
| `EvidenceStore_proofs` | theorems about the graph, the store, and the store as a `ProjectGraph` |
| `Journey` | operators: a project's journey, its thinness, the evidence planned from it |
| `EvidenceSink` | a journey on its way into an `EvidenceGraph` |
| `Studio` | the studio of one tab: journeys, their saving, the question it fetches |
| `SpikePlan` | operators: returns and depth, the wellbeing read, the stage and the plan, what the broker surfaces |
| `AccessDesk` | the Plan and access tab: matches and handoffs over `SpikePlan` and `Hypothesis` |
| `SocraticDefense` | one interview and its three ports |
| `MasteryMap` | operators: a map, its checks, a correction, its order and reach |
| `MapReview` | several guides and the store, over `MasteryMap` |
| `Concierge` | questions of several children, the vet queue and the library |
| `Holdout` | the debts of a slate over a log that arrives late |
| `SignalRead` | the skips and declines read off a log that arrives late |
| `ConsentRecords` | the decision over any list of consent records, day by day |
| `Approvals_proofs` | theorems about `AccessDesk`, `MapReview` and `Concierge`, where a grown-up approves |
| `Induction` | induction on numbers, stated of sets: what the proofs about logs, orders and days share |
| `MCSignalIngest`, `MCGuideConsole`, `MCEvidenceStore`, `MCAccessDesk`, `MCMapReview` | symmetry sets and small sets for TLC |
| `MCParts` | the sum of the parts that share no state, for one run of TLC |
| `Parts_proofs` | theorems about `SocraticDefense`, `Studio`, `EvidenceSink`, `ConsentRecords`, `Holdout` and `SignalRead`, and about their sum, `MCParts` |

### SignalIngest

The two logs are sequences of record identities (what `JSON.stringify` of a record
tells apart; two interactions may have the same one, timestamp included). The
watermark is a length per log. A page's `flush` is split at its await: `Flush`
captures the lengths and sends the slice, `Acknowledge` moves the watermark after
a 2xx (or does not, when localStorage refuses), and `GiveUp` is every other way
out: a refusal, an exception, or the page reloaded while it waits. The request
outlives the page: `Discard` drops a request or an answer nobody awaits, so a
batch may land after its sender gave up and sent it again.

The handler is split at its awaits: `CheckConsent`, `Load` (with `ingest` folded
in, which is synchronous), `Truncate` and `Write` (the two halves of `writeFile`).
`MaxHandlers` bounds how many run at once, `MaxCrashes` how often the console
restarts and leaves the file as it was. Two overlapping writes may leave the file
unparseable; a load of an empty or unparseable file throws, which the handler
turns into a 500.

A profile is its two logs, each as a number of copies per record: what runCycle
derives from them is `HypothesisStore`'s matter. One child, since the game tags
everything with one constant. Consent is what `decideConsent` answers: nothing, then
a grant, then a withdrawal, each between any two steps. That a grant runs out by
itself, or between two steps of a handler, is left out here; how a list of records
comes to an answer on a day, dates that run out included, is `ConsentRecords`. A
read-modify-write of localStorage is one step.

### Hypothesis and HypothesisStore

Of the evidence, `advance` looks at two facts: confident, and the lower bound at
the threshold; a `Read` is those two. Whether the belief was ever above is kept in
the hypothesis, as in the code. Versions, timestamps and reasons are left out.

`Cycle` is runCycle on any batch. Which beliefs a log leads to is not computed: any
may. The log only grows, but what it shows does not. The gate asks for two
consecutive returns a term apart, so a record that reaches the profile late, from
another tablet, and falls between the two takes the gate away; one on the day of a
return makes that no return at all; and one that lifts a skip may take a cell out of
the read. So a cycle brings any read and any ripe timelines; only artifacts, which
mergePerseverance keeps, are never lost. `Replay` is the empty
batch at the same clock. `proven` is a history variable, which no action reads: the
cells whose returns were ripe at some moment since their hypothesis last stood
outside CANDIDATE and ACTIVE. `PromotionStands` speaks of it, since with late records
no more is true: a hypothesis that stands promoted, and one that is activated from
CANDIDATE, which asks for no gate (`actions.test.ts:65` tests that it does not),
may have lost the returns it was promoted on. `Promote`, `Park`, `Reopen` and `Contest` take any actor,
the system included, whom their first check refuses.

### GuideConsole

A tab holds the roster it was loaded with, the store on screen, its copy of the
log and whether it counts the family flag as reviewed; localStorage holds one log
and one review set. `Load` is the load effect: the saved log replayed over the
roster the server sends. `Record` is `record` with `setStore`; the write may be
refused. `Ingest` changes what the next load gets: the hypotheses by system
transitions only, the gates in either direction, as records come late.
Which of several promotable cards ranks first is left open. The QA hook is taken
to be called once between two renders. Closing a tab changes nothing the others
see and is not an action.

### EvidenceGraph and EvidenceStore

A node is its content, of which its id is a digest; an edge points at a node, or
at a name (an author or a tool) that some node carries. `HasPath` is stated by
closed sets rather than by the code's search: y is reachable when everything
closed under the edges that holds x holds y. The list of edges is a set.

A request of the explorer has a program counter over the SQL statements it sends;
each statement is an action, since each is awaited. `ReadNodes` and `ReadEdges`
are getGraph, `Change` is applyAddNode or applyAddEdge on what was read,
`SaveProject` and `Begin` to `Commit` are seedProject and saveGraph, `Rollback` its
catch, `EraseEdges` to `EraseProject` deleteGraph (which the port offers and only
tests call). A request that finds no graph saves the seed first and then goes on to
its own change. A node already in the table violates its primary key.

The application holds one pglite database, hence one connection, and does not
queue its requests. So `rows`, `base` and `tx` belong to the connection: `rows` is
what it sees, `base` what a rollback restores. How statements behave is
PostgreSQL's, modelled from what the code relies on and marked external: BEGIN
inside a transaction does nothing, an error inside one fails it, a failed one
refuses all but its end, and its COMMIT is a rollback that reports no error. With
`Faults` any statement may fail except COMMIT and ROLLBACK; without, only those that
must. The two never throw in the model: the database runs inside the process, where
no connection to it is lost. A ROLLBACK that threw would leave the transaction open,
since the code's catch has nothing behind it. `Restart` is the
process dying, which leaves `Committed`.

Left out: a pool of connections (nothing under `src` passes one), blobs (nothing
puts one), the two project fields saveProject writes, and the check for personal
data in a graph, which appears as a refusal before BEGIN.

### SpikePlan and AccessDesk

`SpikePlan` reads one child's log, a day an entry, the way the console does:
events of the pipeline, the trends and the pressure state, the stage, the plan, and
which mentors and audiences the broker lets through. The thresholds and windows are
constants. `AccessDesk` is the tab over it. `live` is the hypothesis on screen,
`stored` the profile's; the code takes the plan from the one and the wellbeing read
from the other, and so does the module. The guide's decisions (`Decide`) move by
`Hypothesis`'s table; `Propose`, `Approve`, `AdvanceHandoff` and `DeclineMatch` are the panel's buttons,
each with what disables it. A panel that goes off the screen takes its handoffs
along. What the child plays meanwhile is seen at the next load, and is counted
there; a prompted return occurs only in the pilot's logs, since the game writes none.
Relevance and rank of a match, scores and the brief are left out.

### SocraticDefense

One interview; a turn is three steps, one per await (`Asked`, `Answered`,
`Judged`), any of which may be `PortThrows` instead, which rejects the promise. A
facet is its place in FACET_ORDER, a coverage a rank: the code compares coverages
and keeps the greatest, and nothing else. The child's level, which sets the number
of follow-ups, is one of the code's three. The evidence record is made in the same
step as the last turn, which has no await after it.

### MasteryMap and MapReview

A milestone's text is the set of its content words, which is what the overlap
rules look at. `ValidateMap` gives the failed checks as a set. Generation, the
corrections and the store's `put` are actions; a guide's open copy goes when its
drawer closes. The console does not call `put` yet, so `SaveMap` models the port by
its contract: a refused guide re-reads and applies its edit again. The maps the
memory store is seeded with do not come by the generator's road, and are not
modelled.

### Concierge

A request stops at its two awaits, and finds, when it goes on, the library it
began with. Classifier, retriever and generator answer anything within their type,
with three restrictions: a page's reputation and what the moderator says of a page at
a tier stay the same, and a generated answer cites only pages it was given. The
pipeline does not check the last (`pipeline.ts:157-177` serves whatever is cited); the
live generator keeps to it (`concierge-live/src/index.ts:153-155`), and
`AnswersAreForTheTier` rests on it.
Each early return of the pipeline is a disjunct of its step. Served open-web pages
join the queue; a person's approval promotes a page for the tier it was served to.

### Holdout, SignalRead, ConsentRecords

`Holdout` has one log per tablet, and the profile's, which each tablet's showings
reach later and in any order between tablets; what is owed is read from the latter.
`SignalRead` has the profile's interactions and surfacings, which arrive in order
within a visit and in any order between visits. Both logs are read anew each time,
as in the code. An action resolves to modes by its verb and what its artifact
affords; only the primary one counts as taken, as in the code.

`ConsentRecords` is a list of records for two children. A person files one, with
any dates, some unreadable; a withdrawal stamps those of its child; days pass. A
record whose date cannot be read is passed over when another one is readable. The
header of `decide.ts` (lines 22-25) says such a date denies; it does only where it
stands alone.

### Journey, EvidenceSink and Studio

An entry of a journey is its kind, whether it says stuck, and what it refers to. The
studio's ids are digests that hold project and place.

`EvidenceSink` takes a journey as the sink gets it, from a browser's storage or a
request, where nothing but the list itself is checked. `Grow` adds any entry: with an
id another bears, refs to any id, a kind nobody knows, a field that makes the mapping
throw (`Toxic`: refs that are no list, a tool that is null), or null in its place. It
builds the plan of the journey and asks `EvidenceGraph`'s operators (an INSTANCE with
the journey's own nodes and edges) for each edge, so that what `record` drops is
decided by the graph's own refusals. A ref to an id that several entries bear leads to
the last of them, as in `nodeIdByEventId`: a later entry takes over the edges of an
earlier one, which is how an intact entry may close a cycle and be dropped.
`IntactEntriesKept` says that this is the only way, and that malformed entries cost
no other. A null entry is the exception, and the property leaves it out: its kind is
read outside the try (`index.ts:161`), so that `record` throws and the route answers
422 for the whole journey, though `index.ts:32-33` says that "a malformed event must be
SKIPPED, never thrown through `record`". No run is spent on it, since one entry shows it.

`Studio` is one tab. Each change of the projects is followed by the effects React
runs after it: `PersistEffect`, which may be refused by storage, and `AskEffect`,
keyed on the open project's last entry. `Mount` shows the seed before `Hydrate`
reads what is saved. A question is asked for by the effect, and `QuestionArrives`
any time later. An answer goes to the project open now, as the code has it: after a switch that is
another one than the question is about. Two tabs over one storage are left out;
each writes all projects over the other's, as on the console. Left out, too, is a
stored text that does not parse: the code falls back to the seed and saves it over
what was there (`useStudio.ts:44-46`).

## What the runs show

| Run | Result | Shows |
|---|---|---|
| `ingest_serial` | pass | with one handler at a time and no restart, what the watermark covers is held (`KnownDelivered`), the road implements `DeliveredLog` (`KeepsPromise`), and while consent stands every record arrives (`Delivered`) |
| `ingest_concurrent` | pass | with two handlers and a restart: no record twice in a profile (`NoDoubledLog`), nothing before consent (`ConsentFirst`), nothing past the check after a withdrawal (`WithdrawalStops`) |
| `ingest_lost_update` | violation of `KnownDelivered` | two handlers that load before either saves lose records behind the watermark |
| `parts` | pass | the parts listed below, each by itself |
| `hypothesis_silence` | violation of `ReplayIsNoOp` | a cycle on the empty batch can contest a hypothesis |
| `guide_console` | pass | the screen is the replay of its log (`LiveIsReplay`), a park holds whatever the profile becomes (`ParkHolds`), histories and promotions on screen are legal |
| `console_reload` | violation of `ReloadKeeps` | a reload can drop a saved promotion in silence |
| `console_burnout` | violation of `BurnoutHolds` | a promotion on screen brings a plan and its handoffs, but the read beneath still takes the spike for undecided: the hold on new access does not come |
| `console_two_tabs` | violation of `ParkSurvives` | one tab's log overwrites another's park |
| `map_lost_edit` | violation of `EditsKept` | two guides with one map open: a version counts corrections, so that two corrections made at once pass for the successor of another guide's one |
| `evidence_store` | pass | one request at a time, any statement but COMMIT and ROLLBACK failing and a restart anywhere: what is stored is acyclic and grounded (`WellFormed`), a save that returns has stored its graph (`SavedWhole`), no transaction is left open (`QuietConnection`), and the store implements `ProjectGraph` (`KeepsGraph`) |
| `evidence_shared` | violation of `SavedWhole` | two requests that each add a node: the second's DELETE runs inside the first's transaction, whose COMMIT stores neither graph and reports success |

`parts` is one run over components that share no state. A constant variable
says which of them moves; the others rest in their initial states. TLC thus
explores the sum of the state spaces and not the product, and a property of one
part is checked on all of that part's behaviours: an invariant of a resting part
says only that its initial states satisfy it. What it shows, part by part:

| Part | Properties | |
|---|---|---|
| hypotheses | `TypeOK`, `HistoryLegal`, `PromotionStands`, `ReplaySettles`, `NothingErased` | each actor moves a hypothesis within its authority and loses nothing |
| desk | `HandoffsFitThePlan`, `ConsentBehindHandoff`, `LadderKept` | no handoff stands under a read that asks for rest, none past consent, none off the ladder |
| defense | `GapsFromTurns`, `ProbesCapped`, `SessionEnds` | the record's gaps are those of the transcript, probing is bounded, an interview ends |
| review | `EditsReplay`, `FitForUse` | the edits of the stored map account for its text; a map in use passes its checks and reads in order |
| concierge | `AnswersAreForTheTier` | vetting for one tier does not reach another |
| holdout | `DebtsOnlyShrink` | a late showing takes no occasion back |
| signals | `ReadsTheRecord`, `HeldUntilTaken` | the read is one of the record and not of its order; a late record lifts a skip only by showing the cell was taken |
| consents | `WithdrawalIsAbsolute`, `OnlyAGrantAllows` | a withdrawal is final; only a new record turns a no into a yes |
| sink | `IntactEntriesKept` | whatever a journey holds, short of null, `record` does not throw, its graph is acyclic and grounded, and an intact entry with an id of its own is kept |
| studio | `SavedJourneysStand`, `QuestionsComeHome` | saved journeys only grow; a question comes up over its own artefact |

`PartsTypeOK` joins the type invariants of all but the first.

### Bounds

`ingest_serial`: two pages, two requests, one record identity, logs of two. Two
pages are what inFlight does not exclude; two requests allow one in the handler
and one resent; a log of two distinguishes the slice shipped from what was
appended meanwhile, and repeats an identity within a batch. `ingest_concurrent`
adds a second handler and one restart. `guide_console`: one
hypothesis, four decisions, two changes of the profile, so that a decision made on
one roster is replayed over a later one, undone there and made again.

`parts`, by part:

* Hypotheses: one cell, since a cycle treats each cell by itself and a decision is
  about one; histories of nine, enough to be promoted to ACTIVE, parked, reopened and
  promoted to ACTIVE again. The theorems hold for any number of both.
* Desk: a mentor and an audience; pilot children of four days, and ingested ones of
  up to two. Windows of one day and thresholds from one
  up let strain, and more than one stage, occur within the pilot's.
* Defense: three facets, so that one is left and comes back; six turns; coverages
  of three ranks, of which the highest covers; follow-ups as the code has them.
* Review: three milestones, two guides, three versions; a sound map, a stale one, and
  one for each check of the graph that may fail.
* Concierge: two children of two tiers and three pages (with a title, without,
  of no repute); two documents an answer. A page both may ask for is what the
  property is about.
* Holdout: one domain, two tablets, five days; two exposures two days apart.
* Signals: three artifacts of one domain, one reached by a link only; two visits
  that overlap, of which the longer spans the novelty window (one day); two
  interactions and three surfacings, the least with a cell offered, known and
  passed over while another was taken.
* Consents: two children, two purposes, two forms, two records, three days and the
  unreadable date; a review after one day, so that it may come due.
* Sink: journeys of three entries over two ids, each with up to one ref, to either. An
  edge of a showcase runs against the others and a repeated id takes edges over, so that
  three entries make a cycle, and the run does drop entries for one.
* Studio: two projects, of which the seed has one with an entry of its own; three
  entries each; one effort expected, so that an artefact may be thin and not thin.

`evidence_store`: one request at a time (`MaxActive` 1), which is what the
repository's claim needs to hold; three nodes of which the seed has two, and five
edges over them and an author, among them both directions of a pair and a cycle of
three, so that addEdge has each of its refusals to make. `evidence_shared`: two
requests at once, adding nodes only and no statement failing by itself, the least
that breaks the claim.

Runs whose logs or histories fill up stop there, so deadlock is not checked in
them. Symmetry is used only in runs without liveness.

### Fairness

`Delivered` is checked under `FairSpec`. Every open page has a timer that calls
flush (`startUplink`), so `Flush` is weakly fair; the handler is straight-line
code, so its next step is weakly fair; a fetch that was answered resolves and its
continuation runs, so a refused page gives up (weakly fair). Arrival of a request
and of its answer is strongly fair: the network may lose any number of them but
not for ever what is sent for ever. Consent and restarts are not fair, and the
property is conditional on consent standing from some point on.

`SessionEnds` is checked under `DefenseFairness`: the step of whichever port is
awaited is weakly fair. Each answers or throws at last; of the child's turn this
assumes that it ends in an answer or in a rejection. Beginning an interview is not
fair.

## What is proved

Every safety property that a run finds to hold, each type invariant, invariant,
action property and refinement, is a theorem: TLAPS checks it for all values of the
constants under their named assumptions (distinctness of the null values, bounds
being naturals, authors and tools not named by a node's digest, what an artifact
affords being finite) and, where it is said, under a hypothesis of its own. The runs
show the same properties on small instances, and were the first to check the
inductive invariants.

### From the game to the store

`SignalIngest_proofs`, for any number of pages, requests, handlers and restarts:
`TypeCorrect`; `LogIsNeverDoubled`, since every profile is an earlier one or `Ingest`
of one; `ConsentComesFirst` and `WithdrawalIsFinal`, from the fact that only
`CheckConsent` takes a request past the check (`PastTheCheck`).

Delivery needs a hypothesis, `OneAtATime`: at most one handler runs, and the console
does not restart. `ingest_lost_update` shows `KnownDelivered` false with two
handlers; a restart between the two halves of a write loses the file. Neither limits
what the network and the pages do. Under it:

* `WatermarkIsDelivered`: what the watermark covers is held. By itself this says
  nothing of an answer under way. `DeliveryInv` adds it: what the
  captured lengths of a page cover is held, or on its way in the request the page
  awaits, unless that was refused (`Covered`); no two pages await one request; and a
  handler about to save has all the file has (`HandlerInv`).
* `RoadKeepsPromise`: the road implements `DeliveredLog`. `LoggedInv` ties batches and
  profiles to what the logs emitted; each step then maps to an emission, a store, an
  acknowledgement or a stutter.

### Hypotheses and the console

`HypothesisStore_proofs`: `TypeCorrect`, `HistoriesAreLegal`, `PromotionsStand`,
`ReplaysSettle`, `NothingIsErased`. The inductive invariant `IInv` strengthens the
properties per cell (`Sound`): a hypothesis is at rest and its history chained;
whatever stands promoted has its artifact, a human's entries behind it, and its cell in
`proven`, which every step keeps for as long as it stands (`Backed`, `Remember`); and
the current belief was applied, so that nothing still explores that it would make
emerge. Everything rests on lemmas about
`WithState` in `Hypothesis_proofs`, the one way a state changes: it keeps the chain if
the move is in the table (`WithStateChained`) and appends to the past
(`WithStatePrefix`).

`GuideConsole_proofs`, for any number of tabs and any changes of the profile. A store
on screen is a replay (`StoreIsReplay`, over `UndoLast`, which drops the last entry,
and `Record`, which adds one, whether or not storage took it). So the rest is about
what every replay gives, over any log and any roster a server may send, by induction
on the log: `HistoriesAreLegal`, `PromotionsStand`, and `ParksHold`, whose induction
follows the last entry about a hypothesis (`OpenShows` puts the three together).
The
invariant needs of a roster that its hypotheses are at rest and none stands promoted
(`Rostered`), which holds since no decision of a guide reaches the profile. What the two runs with violations show is bounded from the other side:
`OneTabKeepsParks` (`ParkSurvives` with one tab) and `ReloadsKeepTheScreen` (a reload
over the roster on screen changes nothing).

### The evidence of work

`EvidenceStore_proofs`, on the graph: `AddEdgeKeepsAcyclic` and its companions, for
graphs of any size. A path in the grown graph is an old one or goes through the new
edge (`PathsThroughNewEdge`, by exhibiting the closed set of what was reachable). On
the store: `TypeCorrect` and `ConnectionIsQuiet` for any number of requests at once;
`StoredIsWellFormed` and `SaveIsWhole` for one at a time (`MaxActive <= 1`, a finite
`Proc`, and a seed that is itself acyclic and grounded, as one built with addNode and
addEdge is). The inductive invariant `StoreInv` says for each statement about to be
sent what the tables and the request hold: neither property is inductive without it,
since what COMMIT stores is put together over all the statements since BEGIN.
`StoreKeepsGraph`, in the same module, is the refinement of `ProjectGraph` under the
same assumptions. The further invariant `GrownInv` ties what a request is to save to
what is stored: the seed, or one operation on it.

`Parts_proofs`, on the sink: `IntactStaysIntact`, for journeys of any length, malformed
entries and repeated ids among them. The entries kept so far (`Safe`) always make a
graph without throwing, and such a graph is acyclic and grounded (`GraphIsSound`). An
entry more whose id none of them bears changes none of the edges planned before, and all
it adds lead out of its node or, of a showcase, all into it (`OneEntryMore`); so it lies
on no cycle (`IntactIsKept`). That cycles are refused is put as a set each edge leads
into and no other leads out of (`ThrowsNot`). On the studio: `SavedStands` and
`QuestionsFindTheirWork`, for any projects, any seed and journeys of any length.
`StudioInv` adds that what is saved is behind what is on screen, entry for entry,
once the page is ready, and that what is being asked about is still the last entry of
the project open. An id holds its project and place (`LastIdIsItsPlace`), so that a
change of project or of journey is a change of the last id, which is what the code's
effect is keyed on.

### Where a grown-up approves

`Approvals_proofs`:

* `ConsentStands`, `HandoffsFit`, `LadderIsKept`, for any catalog, windows and
  thresholds. A step either leaves everything a row rests on alone, or clears the
  panel, or moves one row (`RowStep`, `AroundRows`).
* `StoredEditsReplay`, by extending a chain of edits at its end; `MapsInUseAreFit`,
  for maps of any size. Its order of reading is the hard part: without a cycle, a
  milestone is deeper than each of its prerequisites (`DeeperThanRequired`), and the
  sort is by floor first and depth next.
* `AnswersFitTheTier`, from three facts kept together: every page in a request's hands
  was screened for its tier (`ScreenedBefore`), what is approved was too
  (`LibraryVetted`), and an answer's sources are among them (`SourcesFit`).

### Reads and records

`Parts_proofs`:

* `RecordTellsTheGaps` and `ProbingIsBounded`, for any facets, caps and scale of
  coverage. The record is made from running totals, the property speaks of the
  transcript: `BestOfTurns` says the total of a facet is the best of its turns,
  `ProbesCounted` that the follow-ups left are the cap less the probes in the
  transcript.
* `WithdrawalHolds`: a record's withdrawal date is never overwritten and its day
  never comes again (`WithdrawalStays`). `GrantsAllow`: the newest of the
  records alive decides, which comes to a yes just when some record alive is not due
  for review (`AllowedAlways`); of such records a later day only takes away.
* `PaidDebtsStayPaid`: occasions are counted greedily, from the first day on, and a
  greedy count over more days is never behind (`Ahead`, by induction on the days).
* `RecordsAreRead`: by induction on the surfacings, the loop holds for each cell the
  first day it was offered known and not taken. `HeldStandsUntilTaken`: a record
  that comes late can only make a cell known earlier, or taken; that nothing of one
  visit arrives out of its order is the inductive `InDayOrder`.
* `PartsTypeCorrect` for the sum, and `PartsRunAlone`: every behaviour of the sum is one
  of each part, which is why a run over the sum, and a proof about a part, speak of
  the same thing.

### Induction

The facts about logs, days, depths and recursive functions go by induction, which
`Induction` proves once in a form the provers can use: a set of numbers that has 0,
and with each member the next, is all of them (`NatSetInduction`); a function that
iterates a step exists (`IterationExists`). The models write loops as recursive
functions of their turns for this reason.

### Only model-checked

Liveness: `Delivered` and `SessionEnds`. Temporal proofs from fairness, and ENABLED,
are out of the prover's reach.

Modelled and not true in general: `EditsKept` and `ParkSurvives` fail with two
editors, `SavedWhole` with two requests. The runs of their names show it.

## Plan

Done, in this order: the road from game to store; the hypothesis store; the guide
console; the evidence repository with `ProjectGraph` as its promise; the access
desk under the wellbeing hold; the defense with ports that throw; the mastery map;
the concierge; the debts of a slate; skips; consent; the studio and its sink.

Left:

1. The safety half of the two liveness properties: that a step which could deliver,
   or end an interview, stands open whenever it is wanted.
2. `EditsKept` under one reviewer, `SavedWhole` under a queue in front of the
   connection: what would make the properties that fail hold.
3. Supersession and attestation in the evidence graph; two tabs of the studio.
4. The inference fold's order and decay against a reference definition.

## Not modelled

Most of the repository by lines is catalogues, seeds, rendering, styles, sounds and
puzzles, and `src/archive`: there is no protocol in it, which is why the share of
lines the modules stand for is low. Beside these: live adapters to language models
and services (input and output only), the TimeBack bridge (a translation field by
field), the family read (a derivation for display; its escalation is `GuideConsole`'s
flag), two-axis tagging (a classification behind a model), the posterior of the
interest inference (real arithmetic, out of TLC's reach), and the erasure of a
child's data, which nothing in the repository calls. `PROJECT.json` gives the reason
for each part.
