SPECIFICATION BusesSpec
CONSTANTS
  WordBytes = 2
  MemSize = 4
  Addrs = {0, 34, 11}
  Sizes = {0, 1}
  Lens = {0, 1}
  Strobes = {{1}}
  Byte = {0, 1}
  RamBit = 32
  BootBase = 8
  MemorySize = 2
  WindowSize = 3
  MemoryByte = {0, 1}
  Images <- ImagesDef
  Masks <- MasksDef
INVARIANTS ImageLoaded
