SPECIFICATION FairSpec
CONSTANTS
  s1 = s1
  c1 = c1
  Socks = {s1}
  Clients = {c1}
  AcceptThreads = 2
  IsKeepalive = TRUE
  MaxStarts = 2
  MaxStops = 1
INVARIANT AllClosable
INVARIANT OneAcceptor
PROPERTY LoopsEnd
PROPERTY ClientsReleased
CHECK_DEADLOCK FALSE
