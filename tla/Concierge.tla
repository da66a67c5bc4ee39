----------------------------- MODULE Concierge -----------------------------
(***************************************************************************)
(* The concierge (packages/concierge): what a child asks runs through one  *)
(* pipeline, which waits for the retriever and for the generator, and the  *)
(* open-web pages it served wait for a person to vet them into the curated *)
(* library.  Several children ask at once, of different age tiers, over    *)
(* the library as it was when each asked.                                  *)
(*                                                                         *)
(* Every port is external: a classifier, the web, a model.  What they      *)
(* answer is arbitrary, except that a page's reputation and what the       *)
(* moderator says of it are fixed, and that the model cites only pages it  *)
(* was given: the pipeline checks no citation, the live adapter keeps to   *)
(* those (concierge-live, index.ts:153).  Text, ranks and scores are left  *)
(* out.                                                                    *)
(***************************************************************************)
EXTENDS Integers, FiniteSets

CONSTANTS Child, Page, Tier, Topic, NoTopic,
          TierOf,      \* of each child
          TitleTopic,  \* of each page: the domain its title names, or NoTopic
          Reputable,   \* pages above REPUTATION_FLOOR, by their URL
          SafeFor,     \* the pages the moderator passes, per tier
          SeedLibrary, \* the curated resources shipped
          MaxDocs      \* MAX_DOCS (5)

Resource   == [page : Page, topic : Topic, tiers : SUBSET Tier]
CacheEntry == [page : Page, query : Topic \cup {NoTopic}, tier : Tier]

ASSUME ConciergeAssumption ==
  /\ TierOf \in [Child -> Tier] /\ TitleTopic \in [Page -> Topic \cup {NoTopic}]
  /\ Reputable \subseteq Page /\ SafeFor \in [Tier -> SUBSET Page]
  /\ SeedLibrary \subseteq Resource /\ MaxDocs \in Nat /\ NoTopic \notin Topic

VARIABLES
  request,   \* per child: what it asked (query, project), and how far that is
  sources,   \* per child: the pages of its answer, or those being drawn on
  library,   \* the curated library
  queue,     \* the vet queue
  approved   \* what a person let into the library (history)

concierge == <<request, sources, library, queue, approved>>

Idle == [stage |-> "idle", query |-> NoTopic, workingOn |-> NoTopic]
Stage == {"idle", "retrieving", "generating", "answered", "refused", "escalated"}

ConciergeInit ==
  /\ request = [c \in Child |-> Idle]
  /\ sources = [c \in Child |-> {}]
  /\ library = SeedLibrary
  /\ queue = {}
  /\ approved = {}

-----------------------------------------------------------------------------
(* The library *)

\* matchesRequest: eligible for the tier, and on a domain the message names or the
\* child works on.  All of them: which MAX_DOCS rank first is left open.
Matching(tier, query, workingOn) ==
  {r \in library : tier \in r.tiers /\ r.topic \in {query, workingOn}}

-----------------------------------------------------------------------------
(* The pipeline *)

To(c, stage, pages) ==
  /\ request' = [request EXCEPT ![c].stage = stage]
  /\ sources' = [sources EXCEPT ![c] = pages]
  /\ UNCHANGED <<library, queue, approved>>

\* Stages 1 to 3, to the first await: distress escalates, a port that throws or what
\* the moderator calls unsafe, in the message or in the library's blurb, refuses.
Ask(c) ==
  /\ request[c].stage \notin {"retrieving", "generating"}
  /\ \E query, workingOn \in Topic \cup {NoTopic} :
       LET curated == Matching(TierOf[c], query, workingOn)
       IN  \E stage \in {"escalated", "refused",
                         IF curated = {} THEN "retrieving" ELSE "answered"} :
             /\ request' = [request EXCEPT ![c] =
                               [stage |-> stage, query |-> query, workingOn |-> workingOn]]
             /\ sources' = [sources EXCEPT ![c] =
                               IF stage = "answered" THEN {r.page : r \in curated} ELSE {}]
  /\ UNCHANGED <<library, queue, approved>>

\* Stage 5: what is left of the pages retrieved for a tier.
Screened(docs, tier) == docs \cap Reputable \cap SafeFor[tier]

Retrieved(c) ==
  /\ request[c].stage = "retrieving"
  /\ \E docs \in SUBSET Page :
       /\ Cardinality(docs) <= MaxDocs
       /\ LET survivors == Screened(docs, TierOf[c])
          IN  IF survivors = {} THEN To(c, "refused", {}) ELSE To(c, "generating", survivors)

\* toCacheEntry and enqueue, by the caller, of every page drawn on.
CacheEntries(c) ==
  {[page |-> p, query |-> request[c].query, tier |-> TierOf[c]] : p \in sources[c]}

\* Stages 6 to 10.  An answer that is empty, ungrounded or unsafe is refused; one that
\* is not may cite every survivor, and is taken to.
GeneratedAnswer(c) ==
  /\ request[c].stage = "generating"
  /\ \/ To(c, "refused", {})
     \/ /\ request' = [request EXCEPT ![c].stage = "answered"]
        /\ queue' = queue \cup CacheEntries(c)
        /\ UNCHANGED <<sources, library, approved>>

\* A port throws, in the first stages or later: refused, "internal".
PortFails(c) ==
  /\ request[c].stage \in {"retrieving", "generating"}
  /\ To(c, "refused", {})

-----------------------------------------------------------------------------
(* The vetting *)

\* Mutant of ToResource: a page once vetted is for everybody.
ToResourceForAll(e, topic) == [page |-> e.page, topic |-> topic, tiers |-> Tier]

ToResource(e, topic) == [page |-> e.page, topic |-> topic, tiers |-> {e.tier}]

\* inferResourcePath: from the query, else from the page's title.
Place(e) == IF e.query # NoTopic THEN e.query ELSE TitleTopic[e.page]

\* promote: the entry leaves the queue with every other of the same page, for
\* whatever tier; approved and placed, it joins the library.
PromoteEntry(e, approve) ==
  /\ queue' = {x \in queue : x.page # e.page}
  /\ IF approve /\ Place(e) # NoTopic
       THEN /\ library' = library \cup {ToResource(e, Place(e))}
            /\ approved' = approved \cup {<<e.page, e.tier>>}
       ELSE UNCHANGED <<library, approved>>
  /\ UNCHANGED <<request, sources>>

ConciergeNext ==
  \/ \E c \in Child : Ask(c) \/ Retrieved(c) \/ GeneratedAnswer(c) \/ PortFails(c)
  \/ \E e \in queue, approve \in BOOLEAN : PromoteEntry(e, approve)

ConciergeSpec == ConciergeInit /\ [][ConciergeNext]_concierge

-----------------------------------------------------------------------------
(* Properties *)

ConciergeTypeOK ==
  /\ request \in [Child -> [stage : Stage, query : Topic \cup {NoTopic},
                            workingOn : Topic \cup {NoTopic}]]
  /\ sources \in [Child -> SUBSET Page]
  /\ library \subseteq Resource /\ queue \subseteq CacheEntry /\ approved \subseteq Page \X Tier

Vetted(p, tier) ==
  <<p, tier>> \in approved \/ \E r \in SeedLibrary : r.page = p /\ tier \in r.tiers

\* Whatever a child is answered from was vetted by a person for its own age tier,
\* or came from a reputable host and passed the moderator at that tier; and what a
\* person vetted had been so screened too.  Older children asking for the same page,
\* before, after or meanwhile, make no difference (promote.ts:21, pipeline.ts:147).
AnswersAreForTheTier ==
  /\ \A c \in Child : \A p \in sources[c] :
       request[c].stage = "answered" =>
         Vetted(p, TierOf[c]) \/ (p \in Reputable /\ p \in SafeFor[TierOf[c]])
  /\ \A x \in approved : x[1] \in Reputable /\ x[1] \in SafeFor[x[2]]
=============================================================================
