SPECIFICATION Spec
CONSTANTS
  N = 4
  imagePath = imagePath
  Values <- MCValues
  MaxEntries = 5
  DirPage = 2
  ModulePage = 2
INVARIANT DevtreeEntire
CHECK_DEADLOCK FALSE
