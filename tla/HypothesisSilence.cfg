SPECIFICATION Spec
CONSTANTS
  Cell = {c1}
  Human = {guide}
  System = System
  None = None
  MaxHistory = 4
PROPERTY ReplayIsNoOp
\* The history is bounded.
CHECK_DEADLOCK FALSE
