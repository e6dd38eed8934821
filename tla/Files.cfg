SPECIFICATION Spec
CONSTANTS
  n1 = n1
  n2 = n2
  n3 = n3
  Names <- MCNames
  Contents <- MCContents
  Chunk = 2
SYMMETRY Symm
INVARIANTS
  TypeOK
  CopyFaithful
PROPERTIES
  SourceKept
  MoveLosesNothing
