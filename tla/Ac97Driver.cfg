SPECIFICATION Spec
CONSTANTS
  h1 = h1
  h2 = h2
  b1 = b1
  b2 = b2
  Null = Null
  Handles <- MCHandles
  Blocks <- MCBlocks
  Requests <- MCRequests
  Sizes <- MCSizes
SYMMETRY Symm
INVARIANTS
  TypeOK
  BufferOwned
  PlayingIsAudible
PROPERTY
  ImplementsSink
