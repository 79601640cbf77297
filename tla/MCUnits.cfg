SPECIFICATION UnitsSpec
CONSTANTS
  Half = 2
  MaxInstrs = 3
  Ratio = 4
  BitTime = 3
  DataBits = 2
  Message <- Text
  MaxChars = 2
  MaxResets = 1
INVARIANTS ResultRight FoundIdle CharsInOrder
PROPERTIES ResultHeld Completes Answered
