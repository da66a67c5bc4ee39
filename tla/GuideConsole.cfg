SPECIFICATION Spec
CONSTANTS
  Id = {h1}
  Reads <- Tides
  Tab = {t1}
  Guide = guide
  Human = {guide}
  System = System
  None = None
  MaxDecisions = 4
  MaxIngests = 2
INVARIANTS TypeOK LiveIsReplay ParkHolds HistoryLegal PromotionStands
