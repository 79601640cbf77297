SPECIFICATION Spec
CONSTANTS
  Cells <- Overlapping
  Values <- Words2
  MaxQueue = 2
INVARIANTS ReadsProgramOrder Settled
PROPERTIES FenceEnds
