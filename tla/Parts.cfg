SPECIFICATION PartsSpec
CONSTANTS
  Cell = {c1}
  Human = {guide}
  System = System
  None = None
  MaxHistory = 9
  TrendWindow = 1
  GapDays = 1
  ReturnWindow = 4
  DepthFor <- ShortTerms
  ReturnsFor <- ShortTerms
  Match = {"m-primary", "a-competition"}
  KindOf <- DeskKinds
  AgeBand = 2
  Seeds <- DeskSeeds
  PilotLogs <- PilotPlay
  MaxDays = 2
  FacetCount = 3
  Top = 2
  Covered = 2
  MaxTurns = 6
  MilestoneCount = 3
  Word = {w}
  Reviewer = {r1, r2}
  Proposals <- MapProposals
  MaxVersion = 3
  NoMap = NoMap
  Child = {"young", "older"}
  Page = {"titled", "bare", "shady"}
  Tier = {"t6-8", "t9-12"}
  Topic = {"chess"}
  NoTopic = NoTopic
  TierOf <- Tiers
  TitleTopic <- Titles
  Reputable = {"titled", "bare"}
  SafeFor <- TierSafe
  SeedLibrary <- OneCurated
  MaxDocs = 2
  Domain = {"music"}
  Taxonomy = {"music"}
  MinExposures = 2
  Spacing = 2
  Tablet = {t1, t2}
  LastDay = 5
  Artifact = {"drums", "scope", "video"}
  Linked = {"video"}
  Topics <- OneCabin
  Affords <- Affordance
  Verb = {"open", "tinker", "follow-source"}
  ModesOf <- VerbModes
  Visit = {"long", "short"}
  VisitDays <- VisitSpan
  NoveltyDays = 1
  MaxActs = 2
  MaxOffers = 3
  Kid = {k1, k2}
  Purpose = {"measurement", "review"}
  Forms <- FormKinds
  Unreadable = Unreadable
  Never = Never
  ReviewDays = 1
  LastDate = 3
  MaxFiled = 2
  EffortExpected = 1
  Workpiece = {"arcade", "beat"}
  SeedJourneys <- OneSeed
  FirstPiece = "arcade"
  Composed = {"outcome", "artifact"}
  MaxEntries = 3
  Nothing = Nothing
  EventId = {x, y}
  UnknownKind = "quiz"
  Toxic = Toxic
  NullEvent = NullEvent
  MaxRefs = 1
  MaxJourney = 3
INVARIANTS TypeOK HistoryLegal PromotionStands ReplaySettles
INVARIANTS PartsTypeOK GapsFromTurns ProbesCapped HandoffsFitThePlan ConsentBehindHandoff
INVARIANTS EditsReplay FitForUse AnswersAreForTheTier ReadsTheRecord IntactEntriesKept
PROPERTIES NothingErased SessionEnds LadderKept DebtsOnlyShrink
PROPERTIES HeldUntilTaken WithdrawalIsAbsolute OnlyAGrantAllows SavedJourneysStand QuestionsComeHome
\* Every part but the defense is bounded, and may stop.
CHECK_DEADLOCK FALSE
