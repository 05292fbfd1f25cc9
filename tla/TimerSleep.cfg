SPECIFICATION FairSpec
CONSTANTS
  None = None
  i1 = i1
  i2 = i2
  u1 = u1
  u2 = u2
  p1 = p1
  p2 = p2
  Ids = {i1}
  Users = {u1, u2}
  Pollers = {p1, p2}
  Delays = {1, 2}
  MaxTimeout = 3
  Gap = 0
  MaxTime = 3
  MaxJumps = 0
  MaxChanges = 1
  MaxSignals = 1
  MaxFires = 1
INVARIANT OneShotOnce
INVARIANT NoOversleep
PROPERTY TimersExpire
