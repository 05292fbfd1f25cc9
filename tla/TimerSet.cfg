SPECIFICATION Spec
CONSTANTS
  None = None
  i1 = i1
  i2 = i2
  u1 = u1
  u2 = u2
  p1 = p1
  p2 = p2
  Ids = {i1, i2}
  Users = {u1}
  Pollers = {p1}
  Delays = {0, 1}
  MaxTimeout = 2
  Gap = 1
  MaxTime = 3
  MaxJumps = 1
  MaxChanges = 1
  MaxSignals = 0
  MaxFires = 1
SYMMETRY Symmetry
INVARIANT TypeOK
INVARIANT SetCoherent
PROPERTY NeverEarly
