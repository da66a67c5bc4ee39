SPECIFICATION Spec
CONSTANTS
  artifact = artifact
  review = review
  claim = claim
  author = author
  Node <- MCNode
  Name <- MCName
  Carries <- MCCarries
  Edge <- MCEdge
  Seed <- MCSeed
  Ops = {"load", "reset", "erase", "addNode", "addEdge"}
  Proc = {p1}
  MaxActive = 1
  Faults = TRUE
INVARIANTS TypeOK WellFormed QuietConnection
PROPERTIES SavedWhole KeepsGraph
