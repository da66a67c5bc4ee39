SPECIFICATION ReviewSpec
CONSTANTS
  MilestoneCount = 3
  Word = {w}
  Reviewer = {r1, r2}
  Proposals <- MapProposals
  MaxVersion = 3
  NoMap = NoMap
PROPERTY EditsKept
