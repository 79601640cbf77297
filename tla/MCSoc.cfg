SPECIFICATION ProgramSpec
CONSTANTS
  WordSize = 16
  ILen = 8
  RegSize = 3
  Leaf <- Swapped
  CellCount = 2
  DeviceWord = {1}
  MulLatency = {1}
  BramDelay = 2
  Instrs <- Everything
INVARIANTS ReadsOwnAnswer
PROPERTIES ImplementsCore AnswersAll
