SPECIFICATION Spec
CONSTANTS
  d1 = d1  d2 = d2  s1 = s1
  NoChunk = NoChunk
  NoSlot = NoSlot
  Slot <- MCSlot
  Source <- MCSource
  HashFails = TRUE
  Chunks = 3
  PerLeaf = 2
  MaxPerHost = 2
  MaxSurplus = 1
  MaxStops = 1
  MaxRestarts = 0
CHECK_DEADLOCK FALSE
SYMMETRY Symmetry
INVARIANTS Leases Accounting HashedIsFull ValidIsGood
PROPERTY ValidIsFinal
