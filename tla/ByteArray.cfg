SPECIFICATION Spec
CONSTANTS
  BaseSize = 2
  Junk = {0}
  Width = 3
  GroupBits = 2
  Raw <- Strings
  Ints <- Numbers
  ReadSizes = {1, 3}
  MaxBlocks = 3
INVARIANT CurCoherent
PROPERTY KeepsBytes
PROPERTY IntsReadBack
