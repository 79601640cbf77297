SPECIFICATION ProgramSpec
CONSTANTS
  WordSize = 16
  ILen = 4
  RegSize = 3
  Leaf <- Swapped
  CellCount = 2
  DeviceWord = {1}
  MulLatency = {1, 3}
  Instrs <- Everything
INVARIANTS ScoreboardExact OperandsSettled StoresOnce ReportExact RequestOfStageM FetchTranslated
PROPERTIES ImplementsIsa DataStallOnce
