SPECIFICATION FairSpec
CONSTANTS
  None = None
  c1 = c1
  c2 = c2
  c3 = c3
  p1 = p1
  p2 = p2
  Fds = {2, 4}
  InitSize = 2
  MaxGen = 2
  Callers = {c1, c2}
  Pollers = {p1}
  Ops = {"cancel", "close"}
  Arrivals = {"READ"}
INVARIANT InterestMatches
PROPERTY CancelCancels
PROPERTY WaitersWake
