SPECIFICATION FairSpec
CONSTANTS
  None = None
  a = a
  b = b
  s = s
  Fibers = {a, b}
  Fds = {s}
  EV <- Writing
  MaxFiles = 2
  MaxCalls = 2
INVARIANT TypeOK
INVARIANT NeverBlocksThread
INVARIANT EntriesFresh
PROPERTY KeepsPromise
PROPERTY TimeoutsStrike
CHECK_DEADLOCK FALSE
