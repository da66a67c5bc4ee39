SPECIFICATION Spec
CONSTANTS
  artifact = artifact
  review = review
  claim = claim
  author = author
  Node <- MCNode
  Name <- MCName
  Carries <- MCCarries
  Edge <- MCEdge
  Seed <- MCSeed
  Ops = {"addNode"}
  Proc = {p1, p2}
  MaxActive = 2
  Faults = FALSE
PROPERTY SavedWhole
