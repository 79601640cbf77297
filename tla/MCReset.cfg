SPECIFICATION ProgramSpec
CONSTANTS
  WordSize = 16
  ILen = 8
  RegSize = 3
  Leaf <- Identity
  CellCount = 2
  DeviceWord = {1}
  MulLatency = {1}
  HoldCycles = 4
  Instrs <- Everything
PROPERTIES RecoversElsewhere Retires
