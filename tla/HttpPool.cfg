SPECIFICATION FairSpec
CONSTANTS
  None = None
  a = a
  b = b
  x = x
  y = y
  Fibers = {a, b}
  Conns = {x, y}
  MaxRequest = 1
  MaxAliveTime = 30
  NowMS = 1000
  MaxRequests = 3
INVARIANT TypeOK
INVARIANT OneOwner
INVARIANT Paired
PROPERTY RequestsEnd
CHECK_DEADLOCK FALSE
