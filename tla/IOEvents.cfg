SPECIFICATION Spec
CONSTANTS
  None = None
  c1 = c1
  c2 = c2
  c3 = c3
  p1 = p1
  p2 = p2
  Fds = {4}
  InitSize = 2
  MaxGen = 1
  Callers = {c1, c2, c3}
  Pollers = {p1, p2}
  Ops = {"del", "cancel", "all", "close"}
  Arrivals = {"READ", "WRITE", "ERR"}
SYMMETRY Symmetry
INVARIANT TypeOK
INVARIANT PendingExact
INVARIANT WaiterCoherent
INVARIANT InterestMatches
INVARIANT NoLostEdge
PROPERTY CancelCancels
