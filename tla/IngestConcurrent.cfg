SPECIFICATION Spec
CONSTANTS
  Page = {p1, p2}
  Record = {a}
  Req = {r1, r2}
  NoReq = NoReq
  MaxLog = 2
  MaxHandlers = 2
  MaxCrashes = 1
SYMMETRY Symmetry
INVARIANTS NoDoubledLog ConsentFirst
PROPERTY WithdrawalStops
\* The log is bounded and everything in it delivered: the game is over.
CHECK_DEADLOCK FALSE
