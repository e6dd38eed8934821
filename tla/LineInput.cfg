SPECIFICATION Spec
CONSTANTS
  Keys = {"a", "LeftShift", "RightShift", "FakeShift", "Enter", "Backspace"}
  PathKeys = {">"}
  Prompt <- MCPrompt
  Columns = 5
  HalfChar = 3
  MaxTyped = 6
INVARIANTS
  TypeOK
  ScreenShowsBuffer
  EchoIsStored
  ReturnsTyped
  ShiftTracksKeys
