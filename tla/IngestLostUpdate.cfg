SPECIFICATION Spec
CONSTANTS
  Page = {p1, p2}
  Record = {a, b}
  Req = {r1, r2}
  NoReq = NoReq
  MaxLog = 2
  MaxHandlers = 2
  MaxCrashes = 0
SYMMETRY Symmetry
INVARIANT KnownDelivered
CHECK_DEADLOCK FALSE
