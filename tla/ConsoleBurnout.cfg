SPECIFICATION DeskSpec
CONSTANTS
  Human = {guide}
  System = System
  None = None
  TrendWindow = 1
  GapDays = 1
  ReturnWindow = 4
  DepthFor <- ShortTerms
  ReturnsFor <- ShortTerms
  Match = {"m-primary", "a-competition"}
  KindOf <- DeskKinds
  AgeBand = 2
  Seeds <- DeskSeeds
  PilotLogs <- PilotPlay
  MaxDays = 2
INVARIANT BurnoutHolds
\* A child whose log is full, and whose page shows an active one, may rest.
CHECK_DEADLOCK FALSE
