SPECIFICATION Spec
CONSTANTS
  Letters <- MCLetters
  White <- MCWhite
  Words <- MCWords
  Dirs <- MCDirs
  MaxLine = 5
  NUM_ARGS = 3
INVARIANT
  DriverInDrivers
