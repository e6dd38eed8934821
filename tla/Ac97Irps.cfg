SPECIFICATION Spec
CONSTANTS
  h1 = h1
  h2 = h2
  b1 = b1
  b2 = b2
  Null = Null
  PnP = PnP
  Handles <- MCHandles
  Blocks <- MCBlocks
  Requests <- MCRequests
  Sizes <- MCSizes
  MaxIrps = 4
SYMMETRY Symm
INVARIANTS
  TypeOK
  OneOwner
  PlayingIsConfigured
PROPERTY
  AloneIsAtomic
CHECK_DEADLOCK FALSE
