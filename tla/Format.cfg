SPECIFICATION FormatSpec
CONSTANTS
  Size = 9
  HalfInt = 32
  MaxDigits = 2
  Addresses = {36, 63}
  Ascii <- MCAscii
  Symbols <- MCSymbols
  Calls <- MCSuitedCalls
INVARIANTS
  MessageTypeOK
  TextDisplayed
CHECK_DEADLOCK FALSE
