SPECIFICATION Spec
CONSTANTS
  N = 4
  imagePath = imagePath
  Values <- MCValues
  MaxEntries = 5
  DirPage = 2
  ModulePage = 2
INVARIANTS
  TypeOK
  KeyboardHandedOver
  EntriesShownOnce
  TreeShown
PROPERTIES
  KeyAfterDriver
  CommandReturns
CHECK_DEADLOCK FALSE
