SPECIFICATION FairSpec
CONSTANTS
  Page = {p1, p2}
  Record = {a}
  Req = {r1, r2}
  NoReq = NoReq
  MaxLog = 2
  MaxHandlers = 1
  MaxCrashes = 0
INVARIANTS TypeOK KnownDelivered
PROPERTIES KeepsPromise Delivered
\* The log is bounded and everything in it delivered: the game is over.
CHECK_DEADLOCK FALSE
